---------------------------- MODULE Spec2Model ----------------------------
(***************************************************************************)
(* A model of the major-technology/cli command-line client: the            *)
(* deployment status poller of `major app deploy` (cmd/app/deploy.go) and  *)
(* the repository-access reconciler with the commands that clone an        *)
(* application repository (utils/git_helper.go, cmd/app/helper.go,         *)
(* app create, app clone, link); the commands that write the credential   *)
(* store (user login, user logout, org select, link; cmd/user/login.go,    *)
(* cmd/user/logout.go, clients/token/token.go); and the two functions      *)
(* isGitAuthError and ParseRemoteURL applied to bounded sets of inputs.    *)
(*                                                                         *)
(* One behaviour is one invocation of the CLI: Init picks the command and  *)
(* its inputs, the actions are the steps of that command. The session      *)
(* commands follow one another on the same credential store.               *)
(***************************************************************************)
EXTENDS Integers, Sequences, FiniteSets, TLC

VARIABLES
    cmd,            \* the command this invocation runs
    pc,             \* where the command is
    ret,            \* what the command returned (NotReturned while running)
    printed,        \* what the command printed about its outcome
    \* ---- deploy: the Bubble Tea program of pollDeploymentStatus
    m,              \* deploymentStatusModel
    poll,           \* the commands of the polling loop still running: how many pollStatus fetches, how many tea.Tick timers
    runErr,         \* the error p.Run() returned
    fetches,        \* GetVersionStatus calls issued so far
    elapsed,        \* seconds spent in poll timers so far
    spinnerTicks,   \* spinner.TickMsg handled so far
    \* ---- deploy: history of what the environment did
    lastFetched,    \* the last response GetVersionStatus gave
    nonTerminal,    \* how many responses so far carried none of the four terminal statuses
    scenarioPos,    \* how far the responses so far follow BUNDLING, BUILDING, DEPLOYING, DEPLOYED (-1: not)
    interrupted,    \* ctrl+c was pressed while polling
    \* ---- repository access: inputs of the command
    opts,           \* EnsureRepositoryAccessOptions
    urls,           \* the clone URLs the backend gave: [ssh, https]
    \* ---- repository access: the machine and the backend
    keyring,        \* the GitHub username in the credential store ("" when none)
    dir,            \* the target directory: "absent", "plain" (no repository) or "repo"
    opened,         \* the URLs handed to OpenBrowser
    \* ---- repository access: locals of EnsureRepositoryAccessWithOptions and its callers
    githubUsername, \* the username resolved
    rec,            \* what the reconciler returned (NotReconciled before)
    pollClock,      \* seconds since the running poll (pollForRepositoryAccess, pollForToken) started, 0 outside it
    tickBuffered,   \* the running poll: a tick waits in the ticker's channel
    gitErr,         \* the callers' gitErr; inside the retry wrapper, the error of its last attempt
    attempt,        \* ensureGitRepositoryWithRetries: the loop variable
    slept,          \* ensureGitRepositoryWithRetries: the delays slept, in milliseconds
    \* ---- repository access: history
    keyring0,       \* the credential store's username when the command started
    resolution,     \* the username block of the reconciler: what each source gave, until the add call
    firstProbe,     \* the initial access probe: "none", "ok" or "failed"
    addCalls,       \* AddGithubCollaborators calls so far
    addOK,          \* an AddGithubCollaborators call has succeeded
    pollLog,        \* the probes of the running poll: how many (counted up to MaxCountedProbes), and whether one took time
    gitOps,         \* git clone and git pull runs on the application repository
    gitOpsUnconfirmed, \* those of them run before the reconciler had returned success
    \* ---- session: the credential store and the commands that write it
    store,          \* the token and the default organization in the credential store ("" when none)
    pollResult,     \* what pollForToken returned: [token, err]
    \* ---- session: history
    store0,         \* the store when the command started
    carried,        \* the poll responses of the running login: the tokens they carried, and the last one's kind
    logoutLog       \* the running logout: how the revocation went, whether the keyring itself failed

deployVars == <<m, poll, runErr, fetches, elapsed, spinnerTicks,
                lastFetched, nonTerminal, scenarioPos, interrupted>>

accessVars == <<opts, urls, keyring, dir, opened, githubUsername, rec, pollClock, tickBuffered,
                gitErr, attempt, slept, keyring0, resolution, firstProbe, addCalls, addOK, pollLog,
                gitOps, gitOpsUnconfirmed>>

sessionVars == <<store, pollResult, store0, carried, logoutLog>>

vars == <<cmd, pc, ret, printed, deployVars, accessVars, sessionVars>>

-----------------------------------------------------------------------------
(* Bounds of the model *)

\* status fetches one deploy may issue
MaxFetches == 4

\* spinner ticks one deploy may handle
MaxSpinnerTicks == 5

\* probes of one propagation poll that are counted one by one
MaxCountedProbes == 4

\* seconds past its timeout up to which a propagation poll is followed
MaxOverrunSeconds == 8

\* the second of a propagation poll from which its probes may take time
SlowProbesFromSecond == 290

-----------------------------------------------------------------------------
(* Values *)

NoErr == "nil"
NotReturned == [kind |-> "running"]
NoResponse == [kind |-> "none"]
\* the username block of the reconciler has not run
NoResolution == [ran |-> FALSE]
\* no probe of the propagation poll has run
NoProbes == [probes |-> 0, slow |-> FALSE]
\* the reconciler has not returned: no error value of the program
NotReconciled == <<[msg |-> << >>, type |-> "none"]>>

\* the credential store of a machine nobody logged in on
EmptyStore == [token |-> "", orgID |-> "", orgName |-> ""]

\* pollForToken has not returned
NotPolled == [token |-> "", err |-> << >>]

\* no poll response yet
NoResponses == [tokens |-> {}, last |-> "none"]

\* no logout is running
NoLogout == [revoked |-> "none", keyringFailed |-> FALSE]

(***************************************************************************)
(* A status string is held as the sequence of its fields between           *)
(* underscores: "BUILD_FAILED" is <<"BUILD", "FAILED">>, "" is <<"">>.     *)
(* Two strings are equal exactly when their sequences are, and a string    *)
(* ends in "_FAILED" exactly when it has two fields or more and the last   *)
(* one is "FAILED".                                                        *)
(***************************************************************************)
BUNDLING == <<"BUNDLING">>
BUNDLE_FAILED == <<"BUNDLE", "FAILED">>
BUILDING == <<"BUILDING">>
BUILD_FAILED == <<"BUILD", "FAILED">>
DEPLOYING == <<"DEPLOYING">>
DEPLOY_FAILED == <<"DEPLOY", "FAILED">>
DEPLOYED == <<"DEPLOYED">>
EmptyString == <<"">>

HasSuffixFailed(status) == Len(status) >= 2 /\ status[Len(status)] = "FAILED"

\* the status strings the backend is taken to send: the seven of the
\* pipeline, the empty string, and three the client does not know
StatusValues ==
    { BUNDLING, BUNDLE_FAILED, BUILDING, BUILD_FAILED, DEPLOYING, DEPLOY_FAILED,
      DEPLOYED, EmptyString, <<"QUEUED">>, <<"PUSH", "FAILED">>, <<"deployed">> }

DeploymentErrors == { "", "npm ERR! build failed" }
AppURLs == { "", "https://my-app.example" }
FetchErrors == { "transport error", "api error" }
KeyNames == { "ctrl+c", "q" }


-----------------------------------------------------------------------------
(* cmd/app/deploy.go: the deployment status poller *)

StatusResponses ==
    [kind : {"status"}, status : StatusValues,
     deploymentError : DeploymentErrors, appURL : AppURLs, err : {NoErr}]

\* GetVersionStatus failed: pollStatus returns statusMsg{err: err}
ErrorResponses ==
    [kind : {"status"}, status : {EmptyString},
     deploymentError : {""}, appURL : {""}, err : FetchErrors]

\* pollStatus: the statusMsg a fetch can end in
pollStatus == StatusResponses \cup ErrorResponses

isTerminalStatusSuffix(status) ==
    status = DEPLOYED \/ HasSuffixFailed(status)

isTerminalStatusNoDeployFailed(status) ==
    status \in { BUNDLE_FAILED, BUILD_FAILED, DEPLOYED }

isTerminalStatus(status) ==
    status \in { BUNDLE_FAILED, BUILD_FAILED, DEPLOY_FAILED, DEPLOYED }

\* the interval of tickCmd, in seconds
TickSeconds == 1

\* the model pollDeploymentStatus builds
NewModel ==
    [ status |-> EmptyString, deploymentError |-> "", appURL |-> "",
      err |-> NoErr, done |-> FALSE,
      dots |-> 1, dotsIncreasing |-> TRUE, tickCounter |-> 0 ]

\* the commands of the polling loop that are running: none, one fetch, one timer
NoCmds == [fetch |-> 0, timer |-> 0]
OneFetch == [fetch |-> 1, timer |-> 0]
OneTimer == [fetch |-> 0, timer |-> 1]

\* the runtime starts the command an Update returned; the command ends when
\* its message is handled
Issued(running, c) == [running EXCEPT ![c] = @ + 1]
Handled(running, c) == [running EXCEPT ![c] = @ - 1]

InitCmdDelayed == "timer"

\* deploymentStatusModel.Init: the spinner's tick and pollStatus, at once
InitCmd == "fetch"

StatusCmdRefetch == "fetch"

\* Update, statusMsg, not terminal: "return m, tickCmd()"
StatusCmd == "timer"

\* Update, tickMsg: "return m, pollStatus(...)"
TickCmd == "fetch"

StatusQuitsIgnoringErr(model) == isTerminalStatus(model.status)

\* Update, statusMsg: "if isTerminalStatus(m.status) || m.err != nil"
StatusQuits(model) == isTerminalStatus(model.status) \/ model.err # NoErr

StoreStatusMsgKeepingError(model, msg) ==
    [model EXCEPT !.status = msg.status,
                  !.appURL = msg.appURL,
                  !.err = msg.err]

\* Update, statusMsg: the four fields taken from the message
StoreStatusMsg(model, msg) ==
    [model EXCEPT !.status = msg.status,
                  !.deploymentError = msg.deploymentError,
                  !.appURL = msg.appURL,
                  !.err = msg.err]

\* Update, spinner.TickMsg: the dots move on every fifth tick
AdvanceDots(model) ==
    LET counted == model.tickCounter + 1 IN
    IF counted >= 5
    THEN IF model.dotsIncreasing
         THEN [model EXCEPT !.tickCounter = 0,
                            !.dots = model.dots + 1,
                            !.dotsIncreasing = ~(model.dots + 1 >= 4)]
         ELSE [model EXCEPT !.tickCounter = 0,
                            !.dots = model.dots - 1,
                            !.dotsIncreasing = (model.dots - 1 <= 0)]
    ELSE [model EXCEPT !.tickCounter = counted]

\* what pollDeploymentStatus returns once p.Run() has returned
pollDeploymentStatus(runError, finalModel) ==
    IF runError # NoErr
    THEN [status |-> EmptyString, deploymentError |-> "", appURL |-> "", err |-> runError]
    ELSE IF finalModel.err # NoErr
    THEN [status |-> EmptyString, deploymentError |-> "", appURL |-> "", err |-> finalModel.err]
    ELSE [status |-> finalModel.status, deploymentError |-> finalModel.deploymentError,
          appURL |-> finalModel.appURL, err |-> NoErr]

IsDeployedUnlessFailed(finalStatus) == ~HasSuffixFailed(finalStatus)

\* runDeploy: finalStatus == "DEPLOYED"
IsDeployed(finalStatus) == finalStatus = DEPLOYED

\* runDeploy: what it returns for the result of pollDeploymentStatus
DeployReturn(r) ==
    IF r.err # NoErr
    THEN [kind |-> "error", title |-> "failed to track deployment status", cause |-> r.err]
    ELSE IF IsDeployed(r.status)
    THEN [kind |-> "nil"]
    ELSE [kind |-> "error", title |-> "deployment failed with status: ", status |-> r.status]

\* runDeploy: what it prints for the result of pollDeploymentStatus
DeployPrinted(r) ==
    IF r.err # NoErr
    THEN << >>
    ELSE IF IsDeployed(r.status)
    THEN <<[line |-> "Deployment successful!"]>>
         \o (IF r.appURL # ""
             THEN <<[line |-> "Your application is live at:", url |-> r.appURL]>>
             ELSE << >>)
    ELSE IF r.deploymentError # ""
    THEN <<[line |-> "Deployment failed with status: ", status |-> r.status],
           [line |-> "Deployment Error Details:", text |-> r.deploymentError]>>
    ELSE << >>

\* the history of the responses: a response with one of the four terminal
\* statuses or an error ends the count of the non-terminal ones
Scenario4 == << BUNDLING, BUILDING, DEPLOYING, DEPLOYED >>

NextScenarioPos(pos, msg) ==
    IF pos >= 0 /\ pos < Len(Scenario4) /\ msg.err = NoErr /\ msg.status = Scenario4[pos + 1]
    THEN pos + 1
    ELSE -1

\* runDeploy up to the created version: the repository checks, the commit
\* and push of uncommitted changes, the URL prompt, CreateApplicationVersion
DeployPrelude(ok) ==
    /\ cmd = "deploy"
    /\ pc = "start"
    /\ IF ok
       THEN /\ pc' = "created"
            /\ UNCHANGED ret
       ELSE /\ pc' = "done"
            /\ ret' = [kind |-> "error", title |-> "deploy could not create a version"]
    /\ UNCHANGED <<cmd, printed, deployVars, sessionVars, accessVars>>

\* pollDeploymentStatus: tea.NewProgram(m), p.Run() starting the program,
\* which runs Init; or p.Run() failing
ProgramStart(started) ==
    /\ cmd = "deploy"
    /\ pc = "created"
    /\ m' = NewModel
    /\ IF started
       THEN /\ pc' = "polling"
            /\ poll' = Issued(poll, InitCmd)
            /\ fetches' = IF InitCmd = "fetch" THEN fetches + 1 ELSE fetches
            /\ UNCHANGED runErr
       ELSE /\ pc' = "quit"
            /\ runErr' = "could not open a new TTY"
            /\ UNCHANGED <<poll, fetches>>
    /\ UNCHANGED <<cmd, ret, printed, elapsed, spinnerTicks,
                   lastFetched, nonTerminal, scenarioPos, interrupted, accessVars, sessionVars>>

\* Update, tea.KeyMsg
UpdateKeyMsg(key) ==
    /\ pc = "polling"
    /\ IF key = "ctrl+c"
       THEN /\ m' = [m EXCEPT !.done = TRUE]
            /\ pc' = "quit"
            /\ interrupted' = TRUE
       ELSE UNCHANGED <<m, pc, interrupted>>
    /\ UNCHANGED <<cmd, ret, printed, poll, runErr, fetches, elapsed, spinnerTicks,
                   lastFetched, nonTerminal, scenarioPos, accessVars, sessionVars>>

\* the fetch pollStatus issued ends, and Update handles its statusMsg
UpdateStatusMsg(msg) ==
    /\ pc = "polling"
    /\ poll.fetch > 0
    /\ LET stored == StoreStatusMsg(m, msg) IN
       IF StatusQuits(stored)
       THEN /\ m' = [stored EXCEPT !.done = TRUE]
            /\ pc' = "quit"
            /\ poll' = Handled(poll, "fetch")
            /\ UNCHANGED fetches
       ELSE /\ m' = stored
            /\ pc' = pc
            /\ StatusCmd = "fetch" => fetches < MaxFetches
            /\ poll' = Issued(Handled(poll, "fetch"), StatusCmd)
            /\ fetches' = IF StatusCmd = "fetch" THEN fetches + 1 ELSE fetches
    /\ lastFetched' = msg
    /\ nonTerminal' =
          IF msg.err = NoErr /\ msg.status \notin { BUNDLE_FAILED, BUILD_FAILED, DEPLOY_FAILED, DEPLOYED }
          THEN nonTerminal + 1 ELSE nonTerminal
    /\ scenarioPos' = NextScenarioPos(scenarioPos, msg)
    /\ UNCHANGED <<cmd, ret, printed, runErr, elapsed, spinnerTicks, interrupted,
                   accessVars, sessionVars>>

\* the timer of tickCmd fires, and Update handles its tickMsg: pollStatus
UpdateTickMsg ==
    /\ pc = "polling"
    /\ poll.timer > 0
    /\ TickCmd = "fetch" => fetches < MaxFetches
    /\ poll' = Issued(Handled(poll, "timer"), TickCmd)
    /\ fetches' = IF TickCmd = "fetch" THEN fetches + 1 ELSE fetches
    /\ elapsed' = elapsed + TickSeconds
    /\ UNCHANGED <<cmd, pc, ret, printed, m, runErr, spinnerTicks,
                   lastFetched, nonTerminal, scenarioPos, interrupted, accessVars, sessionVars>>

\* Update, spinner.TickMsg
UpdateSpinnerTick ==
    /\ pc = "polling"
    /\ spinnerTicks < MaxSpinnerTicks
    /\ m' = AdvanceDots(m)
    /\ spinnerTicks' = spinnerTicks + 1
    /\ UNCHANGED <<cmd, pc, ret, printed, poll, runErr, fetches, elapsed,
                   lastFetched, nonTerminal, scenarioPos, interrupted, accessVars, sessionVars>>

\* tea.Quit ends the program: p.Run() returns the model, then
\* pollDeploymentStatus and runDeploy report
DeployReport ==
    /\ cmd = "deploy"
    /\ pc = "quit"
    /\ LET r == pollDeploymentStatus(runErr, m) IN
       /\ ret' = DeployReturn(r)
       /\ printed' = DeployPrinted(r)
    /\ pc' = "done"
    /\ UNCHANGED <<cmd, deployVars, sessionVars, accessVars>>

\* no deployment is polled
DeployIdle ==
    /\ m = NewModel
    /\ poll = NoCmds
    /\ runErr = NoErr
    /\ fetches = 0
    /\ elapsed = 0
    /\ spinnerTicks = 0
    /\ lastFetched = NoResponse
    /\ nonTerminal = 0
    /\ scenarioPos = 0
    /\ interrupted = FALSE

\* no repository is reconciled or cloned
AccessIdle ==
    /\ opts = [NonInteractive |-> FALSE, GithubUsername |-> ""]
    /\ urls = [ssh |-> << >>, https |-> << >>]
    /\ keyring = ""
    /\ dir = "absent"
    /\ opened = << >>
    /\ githubUsername = ""
    /\ rec = NotReconciled
    /\ pollClock = 0
    /\ tickBuffered = FALSE
    /\ pollLog = NoProbes
    /\ gitErr = << >>
    /\ attempt = 0
    /\ slept = << >>
    /\ keyring0 = ""
    /\ resolution = NoResolution
    /\ firstProbe = "none"
    /\ addCalls = 0
    /\ addOK = FALSE
    /\ gitOps = 0
    /\ gitOpsUnconfirmed = 0

\* no login, logout or organization choice is running
SessionIdle ==
    /\ store = EmptyStore
    /\ pollResult = NotPolled
    /\ store0 = EmptyStore
    /\ carried = NoResponses
    /\ logoutLog = NoLogout

InitDeploy ==
    /\ cmd = "deploy"
    /\ pc = "start"
    /\ ret = NotReturned
    /\ printed = << >>
    /\ DeployIdle
    /\ AccessIdle
    /\ SessionIdle

NextDeploy ==
    \/ \E ok \in BOOLEAN : DeployPrelude(ok)
    \/ \E started \in BOOLEAN : ProgramStart(started)
    \/ \E key \in KeyNames : UpdateKeyMsg(key)
    \/ \E msg \in pollStatus : UpdateStatusMsg(msg)
    \/ UpdateTickMsg
    \/ UpdateSpinnerTick
    \/ DeployReport

SpecDeploy == InitDeploy /\ [][NextDeploy]_vars

-----------------------------------------------------------------------------
(* errors/errors.go: errors as unwrap chains *)

(***************************************************************************)
(* A message is a sequence of pieces of text; an error is its unwrap       *)
(* chain, outermost first: the error's own message and type, then what     *)
(* Unwrap gives, and so on.  The nil error is the empty chain.             *)
(***************************************************************************)
NilError == << >>

\* errors.New, fmt.Errorf without %w
NewError(msg) == <<[msg |-> msg, type |-> "error"]>>

\* the first CLIError of a chain (errors.As), 0 when there is none
FirstCLIError(err) ==
    IF \E i \in 1..Len(err) : err[i].type = "CLIError"
    THEN CHOOSE i \in 1..Len(err) :
            /\ err[i].type = "CLIError"
            /\ \A j \in 1..(i - 1) : err[j].type # "CLIError"
    ELSE 0

\* WrapError: a CLIError titled msg around fmt.Errorf("%s: %w", msg, inner),
\* inner being the Err of the first CLIError of ogerr, or ogerr itself
WrapError(msg, ogerr) ==
    LET k == FirstCLIError(ogerr)
        inner == IF k > 0 THEN SubSeq(ogerr, k + 1, Len(ogerr)) ELSE ogerr
        innerMsg == IF inner = << >> THEN <<"%!w(<nil>)">> ELSE inner[1].msg
    IN  <<[msg |-> msg, type |-> "CLIError"],
          [msg |-> msg \o <<": ">> \o innerMsg, type |-> "wrapError"]>> \o inner

\* a CLIError{Title, Err: errors.New(text)}
CLIError(title, text) ==
    <<[msg |-> <<title>>, type |-> "CLIError"], [msg |-> <<text>>, type |-> "error"]>>

ErrorRepositoryAccessTimeout ==
    CLIError("Timeout waiting for repository access", "timeout waiting for repository access")
ErrorGitRepositoryAccessFailed ==
    CLIError("Failed to access repository after accepting invitation",
             "failed to access repository after accepting invitation")
ErrorGitCloneFailed == CLIError("Failed to clone repository", "failed to clone repository")
ErrorFailedToSelectResources == CLIError("Failed to select resources", "failed to select resources")

\* InvitationPendingError{URL}
InvitationPendingError(url) ==
    <<[msg |-> <<"GitHub invitation pending. Accept at: ">> \o url,
       type |-> "InvitationPendingError", URL |-> url]>>

\* what a command returns
ReturnOf(err) == IF err = NilError THEN [kind |-> "nil"] ELSE [kind |-> "error", err |-> err]

-----------------------------------------------------------------------------
(* clients/git/client.go, utils/git_helper.go: URLs and the access probe *)

(***************************************************************************)
(* A URL is the sequence of its parts: the host prefix, the owner, "/",    *)
(* the repository and, when there, ".git".  The empty URL is << >>.        *)
(***************************************************************************)
SSHURL == <<"git@github.com:", "acme", "/", "my-app", ".git">>
HTTPSURL == <<"https://github.com/", "acme", "/", "my-app", ".git">>

\* strings.TrimSuffix(part, ".git") on a part of a URL
TrimSuffixGit(part) == IF part = ".git" THEN "" ELSE part

\* takes a URL only when it ends in ".git"
ParseRemoteURLGitRequired(remoteURL) ==
    IF /\ Len(remoteURL) = 5
       /\ remoteURL[1] \in {"git@github.com:", "https://github.com/"}
       /\ remoteURL[2] \notin {"", "/"}
       /\ remoteURL[3] = "/"
       /\ remoteURL[4] \notin {"", "/"}
       /\ remoteURL[5] = ".git"
    THEN [ok |-> TRUE, Owner |-> remoteURL[2], Repo |-> TrimSuffixGit(remoteURL[4])]
    ELSE [ok |-> FALSE, Owner |-> "", Repo |-> ""]

\* ParseRemoteURL: the two patterns, "^host([^/]+)/([^/]+?)(\.git)?$", and the
\* ".git" trimmed off the repository matched
ParseRemoteURL(remoteURL) ==
    IF /\ Len(remoteURL) \in {4, 5}
       /\ remoteURL[1] \in {"git@github.com:", "https://github.com/"}
       /\ remoteURL[2] \notin {"", "/"}
       /\ remoteURL[3] = "/"
       /\ remoteURL[4] \notin {"", "/"}
       /\ (Len(remoteURL) = 5 => remoteURL[5] = ".git")
    THEN [ok |-> TRUE, Owner |-> remoteURL[2], Repo |-> TrimSuffixGit(remoteURL[4])]
    ELSE [ok |-> FALSE, Owner |-> "", Repo |-> ""]

\* ExtractGitHubURL: https://github.com/<owner>/<repo>, << >> on an error
ExtractGitHubURL(cloneURL) ==
    IF cloneURL = << >>
    THEN << >>
    ELSE LET remoteInfo == ParseRemoteURL(cloneURL) IN
         IF remoteInfo.ok
         THEN <<"https://github.com/", remoteInfo.Owner, "/", remoteInfo.Repo>>
         ELSE << >>

\* CheckRepositoryAccess: canSSH is what CanUseSSH finds, lsRemote whether
\* git ls-remote --heads exits with 0 on the URL tried
CheckRepositoryAccess(sshURL, httpsURL, canSSH, lsRemote) ==
    IF canSSH /\ sshURL # << >>
    THEN lsRemote
    ELSE IF httpsURL # << >>
    THEN lsRemote
    ELSE FALSE

\* pollForRepositoryAccess: the ticker's interval and the timeout, in seconds
PollIntervalSeconds == 2
PollTimeoutSeconds == 300

-----------------------------------------------------------------------------
(* utils/git_helper.go: EnsureRepositoryAccessWithOptions *)

FlagUsernames == { "", "hubot" }
StoredUsernames == { "", "octocat" }
PromptResults == { [ok |-> TRUE, value |-> "hubot"], [ok |-> FALSE, value |-> ""] }

\* what "ssh -T git@github.com" prints
SSHOutputs ==
    { <<"Hi ", "monalisa", "! You've successfully authenticated">>,
      <<"git@github.com: Permission denied (publickey).">> }

\* what "git config --get github.user" gives: unset, set to nothing, set
ConfigOutputs ==
    { [ok |-> FALSE, output |-> << >>],
      [ok |-> TRUE, output |-> <<"\n">>],
      [ok |-> TRUE, output |-> <<"defunkt", "\n">>] }

\* what "git config --get user.email" gives
EmailOutputs ==
    { [ok |-> FALSE, output |-> << >>],
      [ok |-> TRUE, output |-> <<"dev", "@example.com", "\n">>],
      [ok |-> TRUE, output |-> <<"12345", "+", "mojombo", "@users.noreply.github.com", "\n">>] }

\* strings.TrimSpace of a command's output
TrimSpace(output) ==
    IF output # << >> /\ output[Len(output)] = "\n"
    THEN SubSeq(output, 1, Len(output) - 1)
    ELSE output

\* the name the SSH greeting carries, "" when it is no greeting
SSHName(output) ==
    IF Len(output) = 3 /\ output[1] = "Hi " /\ output[3] = "! You've successfully authenticated"
    THEN output[2]
    ELSE ""

\* the name a <id>+<username>@users.noreply.github.com address carries
EmailName(email) ==
    IF email # << >> /\ email[Len(email)] = "@users.noreply.github.com"
    THEN IF Len(email) = 2 THEN email[1]
         ELSE IF Len(email) = 4 /\ email[2] = "+" THEN email[3]
         ELSE ""
    ELSE ""

\* git.GetCurrentGithubUser: the SSH greeting, then github.user, then the
\* no-reply address of user.email
GetCurrentGithubUser(sshOutput, config, email) ==
    IF SSHName(sshOutput) # ""
    THEN SSHName(sshOutput)
    ELSE IF config.ok /\ Len(config.output) > 0
    THEN (IF TrimSpace(config.output) = << >> THEN "" ELSE TrimSpace(config.output)[1])
    ELSE IF email.ok
    THEN EmailName(TrimSpace(email.output))
    ELSE ""

PromptsAnyway(nonInteractive) == FALSE

\* "if opts.NonInteractive { return fmt.Errorf(...) }" before the prompt
FailsFast(nonInteractive) == nonInteractive

StoreGithubUsernameNowhere(current, username, storeOK) == current

\* token.StoreGithubUsername on the keyring, its error ignored by the caller
StoreGithubUsername(current, username, storeOK) ==
    IF storeOK THEN username ELSE current

AddErrors ==
    { NilError,
      NewError(<<"failed to make request">>),
      CLIError("Unauthorized", "unauthorized") }

\* where the reconciler returns to
AfterReconciler == IF cmd = "create" THEN "create_after" ELSE "clone_after"

AfterFirstProbeNoReturn(hasAccess) == "resolve"

\* "if CheckRepositoryAccess(sshURL, httpsURL) { ... return nil }"
AfterFirstProbe(hasAccess) == IF hasAccess THEN "return" ELSE "resolve"

AfterAddAlwaysPolling(err, nonInteractive) ==
    IF err # NilError THEN "fail" ELSE "poll"

AddFailureUnwrapped(err) == err

\* "return errors.WrapError("failed to add GitHub collaborator", err)"
AddFailure(err) == WrapError(<<"failed to add GitHub collaborator">>, err)

AfterAddIgnoringError(err, nonInteractive) ==
    IF nonInteractive THEN "pending" ELSE "poll"

\* after AddGithubCollaborators: its error is returned; else non-interactive
\* mode returns the pending invitation and interactive mode polls
AfterAdd(err, nonInteractive) ==
    IF err # NilError THEN "fail"
    ELSE IF nonInteractive THEN "pending" ELSE "poll"

\* the initial access probe
ReconcilerProbe(canSSH, lsRemote) ==
    /\ pc = "rec_probe"
    /\ LET hasAccess == CheckRepositoryAccess(urls.ssh, urls.https, canSSH, lsRemote) IN
       /\ firstProbe' = IF hasAccess THEN "ok" ELSE "failed"
       /\ IF AfterFirstProbe(hasAccess) = "return"
          THEN /\ rec' = NilError
               /\ pc' = AfterReconciler
               /\ printed' = Append(printed, [line |-> "You already have access to the repository"])
          ELSE /\ pc' = "rec_resolve"
               /\ UNCHANGED <<rec, printed>>
    /\ UNCHANGED <<cmd, ret, deployVars, sessionVars, opts, urls, keyring, dir, opened, githubUsername,
                   pollClock, tickBuffered, pollLog, gitErr, attempt, slept, keyring0, resolution, addCalls, addOK, gitOps, gitOpsUnconfirmed>>

\* the username: the flag, the stored one, the detected one (stored when
\* found), the prompt (stored when answered); readOK: the credential store
\* can be read, storeOK: it can be written
ReconcilerResolve(readOK, sshOutput, config, email, prompt, storeOK) ==
    /\ pc = "rec_resolve"
    /\ LET fromStore == IF readOK THEN keyring ELSE ""
           detected == GetCurrentGithubUser(sshOutput, config, email)
           useDetected == fromStore = "" /\ detected # ""
           storedUsername == IF useDetected THEN detected ELSE fromStore
           seen == [ran |-> TRUE, stored |-> fromStore, ssh |-> SSHName(sshOutput),
                    config |-> config, email |-> email, prompt |-> prompt,
                    readFailed |-> ~readOK]
       IN
       IF opts.GithubUsername # ""
       THEN /\ githubUsername' = opts.GithubUsername
            /\ resolution' = [seen EXCEPT !.stored = "", !.ssh = "",
                                          !.config = [ok |-> FALSE, output |-> << >>],
                                          !.email = [ok |-> FALSE, output |-> << >>],
                                          !.prompt = [ok |-> FALSE, value |-> ""],
                                          !.readFailed = FALSE]
                                @@ [prompted |-> FALSE, storeCalls |-> 0, storeFailed |-> FALSE]
            /\ pc' = "rec_add"
            /\ UNCHANGED <<keyring, rec, printed>>
       ELSE IF storedUsername # ""
       THEN /\ githubUsername' = storedUsername
            /\ keyring' = IF useDetected
                          THEN StoreGithubUsername(keyring, detected, storeOK)
                          ELSE keyring
            /\ resolution' = seen @@ [prompted |-> FALSE,
                                      storeCalls |-> IF useDetected THEN 1 ELSE 0,
                                      storeFailed |-> useDetected /\ ~storeOK]
            /\ printed' = IF useDetected
                          THEN Append(printed, [line |-> "GitHub username auto-detected: ",
                                                username |-> detected])
                          ELSE printed
            /\ pc' = "rec_add"
            /\ UNCHANGED rec
       ELSE IF FailsFast(opts.NonInteractive)
       THEN /\ rec' = NewError(<<"could not detect GitHub username. Run 'major user login' to set up GitHub access">>)
            /\ resolution' = seen @@ [prompted |-> FALSE, storeCalls |-> 0, storeFailed |-> FALSE]
            /\ pc' = AfterReconciler
            /\ UNCHANGED <<githubUsername, keyring, printed>>
       ELSE IF ~prompt.ok
       THEN /\ rec' = WrapError(<<"failed to get GitHub username">>, NewError(<<"user aborted">>))
            /\ resolution' = seen @@ [prompted |-> TRUE, storeCalls |-> 0, storeFailed |-> FALSE]
            /\ pc' = AfterReconciler
            /\ UNCHANGED <<githubUsername, keyring, printed>>
       ELSE /\ githubUsername' = prompt.value
            /\ keyring' = StoreGithubUsername(keyring, prompt.value, storeOK)
            /\ resolution' = seen @@ [prompted |-> TRUE, storeCalls |-> 1, storeFailed |-> ~storeOK]
            /\ pc' = "rec_add"
            /\ UNCHANGED <<rec, printed>>
    /\ UNCHANGED <<cmd, ret, deployVars, sessionVars, opts, urls, dir, opened, pollClock, tickBuffered,
                   pollLog, gitErr, attempt, slept, keyring0, firstProbe, addCalls, addOK,
                   gitOps, gitOpsUnconfirmed>>

\* AddGithubCollaborators and what follows it up to the poll
ReconcilerAdd(err) ==
    /\ pc = "rec_add"
    /\ addCalls' = addCalls + 1
    /\ addOK' = (addOK \/ err = NilError)
    /\ LET cloneURL == IF urls.https = << >> THEN urls.ssh ELSE urls.https
           githubURL == ExtractGitHubURL(cloneURL)
           step == AfterAdd(err, opts.NonInteractive)
       IN
       /\ opened' = IF step # "fail" /\ githubURL # << >> THEN Append(opened, githubURL) ELSE opened
       /\ printed' =
             IF step = "fail" THEN printed
             ELSE IF step = "poll" /\ githubURL # << >>
             THEN printed \o <<[line |-> "Invitation sent!"],
                               [line |-> "Please accept the invitation at: ", url |-> githubURL]>>
             ELSE Append(printed, [line |-> "Invitation sent!"])
       /\ IF step = "fail"
          THEN /\ rec' = AddFailure(err)
               /\ pc' = AfterReconciler
          ELSE IF step = "pending"
          THEN /\ rec' = InvitationPendingError(githubURL)
               /\ pc' = AfterReconciler
          ELSE /\ pc' = "rec_poll"
               /\ UNCHANGED rec
    /\ pollClock' = 0
    /\ tickBuffered' = FALSE
    /\ pollLog' = NoProbes
    /\ resolution' = NoResolution
    /\ UNCHANGED <<cmd, ret, deployVars, sessionVars, opts, urls, keyring, dir, githubUsername,
                   gitErr, attempt, slept, keyring0, firstProbe, gitOps, gitOpsUnconfirmed>>

\* the seconds one CheckRepositoryAccess of the poll can take (ssh -T to
\* github.com, then git ls-remote): no time to speak of, or two intervals
ProbeSeconds == { 0, 2 * PollIntervalSeconds }

TimeoutReadyAtOnce(t) == TRUE

\* time.After(5 * time.Minute): the timeout channel holds its value
TimeoutReady(t) == t >= PollTimeoutSeconds

NextTickAtOnce(t) == IF t = 0 THEN 0 ELSE ((t \div PollIntervalSeconds) + 1) * PollIntervalSeconds

\* time.NewTicker(2 * time.Second): the first tick after second t
NextTickAt(t) == ((t \div PollIntervalSeconds) + 1) * PollIntervalSeconds

\* a tick fell after second from and no later than second to
TickFellIn(from, to) == \E k \in (from + 1)..to : k % PollIntervalSeconds = 0

LoggedProbe(log, seconds) ==
    [probes |-> IF log.probes < MaxCountedProbes THEN log.probes + 1 ELSE log.probes,
     slow |-> (log.slow \/ seconds > 0)]

\* pollForRepositoryAccess, case <-ticker.C: the select takes a tick, the one
\* buffered or, with nothing ready, the next one to fall, and the probe runs
PollTick(canSSH, lsRemote, seconds) ==
    /\ pc = "rec_poll"
    /\ tickBuffered \/ ~TimeoutReady(pollClock)
    /\ LET start == IF tickBuffered THEN pollClock ELSE NextTickAt(pollClock)
           end == start + seconds
       IN
       /\ start <= PollTimeoutSeconds + MaxOverrunSeconds
       /\ seconds > 0 => start >= SlowProbesFromSecond
       /\ pollClock' = end
       /\ tickBuffered' = TickFellIn(start, end)
    /\ pollLog' = LoggedProbe(pollLog, seconds)
    /\ pc' = IF CheckRepositoryAccess(urls.ssh, urls.https, canSSH, lsRemote)
             THEN "rec_granted"
             ELSE "rec_poll"
    /\ UNCHANGED <<cmd, ret, printed, deployVars, sessionVars, opts, urls, keyring, dir, opened,
                   githubUsername, rec, gitErr, attempt, slept, keyring0, resolution, firstProbe,
                   addCalls, addOK, gitOps, gitOpsUnconfirmed>>

\* pollForRepositoryAccess, case <-timeout: the select takes the timeout, ready
\* or, with nothing ready, falling no later than the next tick
PollTimeout ==
    /\ pc = "rec_poll"
    /\ \/ TimeoutReady(pollClock)
       \/ ~tickBuffered /\ NextTickAt(pollClock) >= PollTimeoutSeconds
    /\ pollClock' = IF TimeoutReady(pollClock) THEN pollClock ELSE PollTimeoutSeconds
    /\ pc' = "rec_timed_out"
    /\ UNCHANGED <<cmd, ret, printed, deployVars, sessionVars, opts, urls, keyring, dir, opened,
                   githubUsername, rec, tickBuffered, gitErr, attempt, slept, keyring0, resolution,
                   firstProbe, addCalls, addOK, pollLog, gitOps, gitOpsUnconfirmed>>

\* EnsureRepositoryAccessWithOptions after pollForRepositoryAccess returned:
\* false is the timeout error, true is success
ReconcilerReturn ==
    /\ pc \in {"rec_granted", "rec_timed_out"}
    /\ IF pc = "rec_timed_out"
       THEN /\ rec' = ErrorRepositoryAccessTimeout
            /\ UNCHANGED printed
       ELSE /\ rec' = NilError
            /\ printed' = Append(printed, [line |-> "Repository access granted!"])
    /\ pc' = AfterReconciler
    /\ pollClock' = 0
    /\ tickBuffered' = FALSE
    /\ pollLog' = NoProbes
    /\ UNCHANGED <<cmd, ret, deployVars, sessionVars, opts, urls, keyring, dir, opened, githubUsername,
                   gitErr, attempt, slept, keyring0, resolution, firstProbe, addCalls, addOK,
                   gitOps, gitOpsUnconfirmed>>

-----------------------------------------------------------------------------
(* cmd/app/helper.go: git on the application repository *)

\* the lower-case form of a piece of text
ToLower(text) ==
    CASE text = "Repository not found" -> "repository not found"
      [] text = "Permission denied" -> "permission denied"
      [] text = "PERMISSION DENIED" -> "permission denied"
      [] text = "Could not read from remote repository" -> "could not read from remote repository"
      [] text = "Authentication failed" -> "authentication failed"
      [] text = "Access Denied" -> "access denied"
      [] text = "fatal: Unable to access" -> "fatal: unable to access"
      [] text = "Not Found" -> "not found"
      [] OTHER -> text

authErrorPatterns ==
    { "repository not found", "could not read from remote repository",
      "authentication failed", "permission denied", "403", "401",
      "access denied", "fatal: unable to access" }

\* looks at the outermost error only
isGitAuthErrorTopOnly(err) ==
    /\ err # << >>
    /\ \E j \in 1..Len(err[1].msg) : ToLower(err[1].msg[j]) \in authErrorPatterns

\* isGitAuthError: some message of the chain, in lower case, holds a pattern
isGitAuthError(err) ==
    \E i \in 1..Len(err) :
        \E j \in 1..Len(err[i].msg) : ToLower(err[i].msg[j]) \in authErrorPatterns

\* what the git binary can do: succeed, or fail with an output
GitRuns ==
    { [ok |-> TRUE, output |-> << >>],
      [ok |-> FALSE, output |-> <<"ERROR: ", "Repository not found", ".">>],
      [ok |-> FALSE, output |-> <<"fatal: ", "destination path already exists">>] }

\* what one ensureGitRepository finds: CanUseSSH, git init, git remote, and
\* the clone or pull
GitInputs == [canSSH : BOOLEAN, initOK : BOOLEAN, remoteOK : BOOLEAN, run : GitRuns]

ExitError == NewError(<<"exit status 128">>)

\* git.Clone
Clone(run) ==
    IF run.ok THEN NilError ELSE WrapError(<<"git clone failed: ">> \o run.output, ExitError)

\* git.Pull
Pull(run) ==
    IF run.ok THEN NilError ELSE WrapError(<<"git pull failed: ">> \o run.output, ExitError)

\* getPreferredCloneURL, << >> for "no valid clone method available"
getPreferredCloneURL(sshURL, httpsURL, canSSH) ==
    IF canSSH /\ sshURL # << >> THEN sshURL
    ELSE IF httpsURL # << >> THEN httpsURL
    ELSE << >>

\* ensureGitRepository: the error, the directory afterwards, and how many
\* git clone or git pull it ran
ensureGitRepository(targetDir, sshURL, httpsURL, g) ==
    IF getPreferredCloneURL(sshURL, httpsURL, g.canSSH) = << >>
    THEN [err |-> NewError(<<"no valid clone method available">>), dir |-> targetDir, ops |-> 0]
    ELSE IF targetDir = "absent"
    THEN [err |-> Clone(g.run), dir |-> IF g.run.ok THEN "repo" ELSE "absent", ops |-> 1]
    ELSE IF targetDir = "plain" /\ ~g.initOK
    THEN [err |-> WrapError(<<"failed to initialize git repository">>,
                            WrapError(<<"git init failed: ", "Permission denied">>, ExitError)),
          dir |-> "plain", ops |-> 0]
    ELSE IF ~g.remoteOK
    THEN [err |-> WrapError(<<"failed to set git origin">>,
                            WrapError(<<"failed to add remote: ", "error: could not lock config file">>, ExitError)),
          dir |-> "repo", ops |-> 0]
    ELSE [err |-> Pull(g.run), dir |-> "repo", ops |-> 1]

\* cloneRepository: the error and how many git clone it ran
cloneRepository(sshURL, httpsURL, canSSH, run) ==
    IF ~(canSSH /\ sshURL # << >>) /\ httpsURL = << >>
    THEN [err |-> NewError(<<"no valid clone method available">>), ops |-> 0]
    ELSE IF run.ok
    THEN [err |-> NilError, ops |-> 1]
    ELSE [err |-> WrapError(<<"failed to clone repository using ",
                              IF canSSH /\ sshURL # << >> THEN "SSH" ELSE "HTTPS">>,
                            Clone(run)),
          ops |-> 1]

\* ensureGitRepositoryWithRetries
maxRetries == 3
baseDelayMs == 200

RECURSIVE Pow2(_)
Pow2(n) == IF n <= 0 THEN 1 ELSE 2 * Pow2(n - 1)

RetryDelayFlat(n) == baseDelayMs

\* the delay before the attempt numbered from 0
RetryDelay(n) == baseDelayMs * Pow2(n - 1)

RetryGoesOnWhatever(err) == TRUE

\* "if !isGitAuthError(err) { return err }": only an access error is retried
RetryGoesOn(err) == isGitAuthError(err)

ReconcilerFailedNever(r) == FALSE

\* the callers' "if err != nil" on what the reconciler returned
ReconcilerFailed(r) == r # NilError

\* the git runs counted, those before the reconciler's success apart
CountGitOps(n) ==
    /\ gitOps' = gitOps + n
    /\ gitOpsUnconfirmed' = IF rec = NilError THEN gitOpsUnconfirmed ELSE gitOpsUnconfirmed + n

-----------------------------------------------------------------------------
(* app create (runCreate) *)

\* runCreate up to the pushed template: the organization, the form, the
\* template, CreateApplication, SetApplicationTemplate, PushTemplate
CreatePrelude(ok) ==
    /\ cmd = "create"
    /\ pc = "start"
    /\ IF ok
       THEN pc' = "rec_probe" /\ UNCHANGED ret
       ELSE pc' = "done" /\ ret' = ReturnOf(NewError(<<"create could not set up the application">>))
    /\ UNCHANGED <<cmd, printed, deployVars, sessionVars, accessVars>>

\* runCreate after EnsureRepositoryAccessWithOptions: the pending invitation,
\* the error, the resources, the clone, the resources added, the .env file
CreateAfterAccess(resourcesOK, canSSH, run, addedOK) ==
    /\ cmd = "create"
    /\ pc = "create_after"
    /\ pc' = "done"
    /\ IF rec # NilError /\ rec[1].type = "InvitationPendingError"
       THEN /\ ret' = ReturnOf(NilError)
            /\ printed' = Append(printed, [line |-> "Action Required: Accept GitHub Invitation",
                                           url |-> rec[1].URL])
            /\ UNCHANGED <<gitErr, dir, gitOps, gitOpsUnconfirmed>>
       ELSE IF ReconcilerFailed(rec)
       THEN /\ ret' = ReturnOf(WrapError(<<"failed to ensure repository access">>, rec))
            /\ UNCHANGED <<printed, gitErr, dir, gitOps, gitOpsUnconfirmed>>
       ELSE IF ~resourcesOK
       THEN /\ ret' = ReturnOf(ErrorFailedToSelectResources)
            /\ UNCHANGED <<printed, gitErr, dir, gitOps, gitOpsUnconfirmed>>
       ELSE LET c == cloneRepository(urls.ssh, urls.https, canSSH, run) IN
            /\ gitErr' = c.err
            /\ CountGitOps(c.ops)
            /\ dir' = IF c.err = NilError THEN "repo" ELSE dir
            /\ IF c.err # NilError
               THEN /\ ret' = ReturnOf(WrapError(<<"failed to clone repository">>, c.err))
                    /\ UNCHANGED printed
               ELSE IF ~addedOK
               THEN /\ ret' = ReturnOf(ErrorFailedToSelectResources)
                    /\ printed' = Append(printed, [line |-> "Application successfully created"])
               ELSE /\ ret' = ReturnOf(NilError)
                    /\ printed' = Append(printed, [line |-> "Application successfully created"])
    /\ UNCHANGED <<cmd, deployVars, sessionVars, opts, urls, keyring, opened, githubUsername, rec,
                   pollClock, tickBuffered, pollLog, attempt, slept, keyring0, resolution, firstProbe, addCalls, addOK>>

-----------------------------------------------------------------------------
(* app clone (runClone) and link (runLink) *)

\* runClone up to the working directory: the organization, the applications,
\* the selection; runLink: the login, GetApplicationForLink, StoreDefaultOrg
ClonePrelude(ok) ==
    /\ cmd \in {"clone", "link"}
    /\ pc = "start"
    /\ IF ok
       THEN pc' = "git_first" /\ UNCHANGED ret
       ELSE pc' = "done" /\ ret' = ReturnOf(NewError(<<"the application could not be found">>))
    /\ UNCHANGED <<cmd, printed, deployVars, sessionVars, accessVars>>

\* the first ensureGitRepository and the branch on its error
GitFirstAttempt(g) ==
    /\ cmd \in {"clone", "link"}
    /\ pc = "git_first"
    /\ LET r == ensureGitRepository(dir, urls.ssh, urls.https, g) IN
       /\ gitErr' = r.err
       /\ dir' = r.dir
       /\ CountGitOps(r.ops)
       /\ IF r.err = NilError
          THEN pc' = "clone_finish" /\ UNCHANGED ret
          ELSE IF isGitAuthError(r.err)
          THEN pc' = "rec_probe" /\ UNCHANGED ret
          ELSE pc' = "done" /\ ret' = ReturnOf(ErrorGitCloneFailed)
    /\ UNCHANGED <<cmd, printed, deployVars, sessionVars, opts, urls, keyring, opened, githubUsername, rec,
                   pollClock, tickBuffered, pollLog, attempt, slept, keyring0, resolution, firstProbe, addCalls, addOK>>

\* after EnsureRepositoryAccess: its error is returned, else the retries start
CloneAfterAccess ==
    /\ cmd \in {"clone", "link"}
    /\ pc = "clone_after"
    /\ IF ReconcilerFailed(rec)
       THEN /\ pc' = "done"
            /\ ret' = ReturnOf(WrapError(<<"failed to ensure repository access">>, rec))
       ELSE /\ pc' = "git_retry"
            /\ UNCHANGED ret
    /\ attempt' = 0
    /\ UNCHANGED <<cmd, printed, deployVars, sessionVars, opts, urls, keyring, dir, opened, githubUsername,
                   rec, pollClock, tickBuffered, pollLog, gitErr, slept, keyring0, resolution, firstProbe, addCalls, addOK, gitOps, gitOpsUnconfirmed>>

\* one turn of the loop of ensureGitRepositoryWithRetries, and what the
\* caller makes of the loop's end
GitRetryAttempt(g) ==
    /\ cmd \in {"clone", "link"}
    /\ pc = "git_retry"
    /\ attempt < maxRetries
    /\ slept' = IF attempt > 0 THEN Append(slept, RetryDelay(attempt)) ELSE slept
    /\ LET r == ensureGitRepository(dir, urls.ssh, urls.https, g) IN
       /\ dir' = r.dir
       /\ CountGitOps(r.ops)
       /\ IF r.err = NilError
          THEN /\ gitErr' = NilError
               /\ pc' = "clone_finish"
               /\ UNCHANGED <<ret, attempt>>
          ELSE IF ~RetryGoesOn(r.err)
          THEN /\ gitErr' = r.err
               /\ pc' = "done"
               /\ ret' = ReturnOf(ErrorGitRepositoryAccessFailed)
               /\ UNCHANGED attempt
          ELSE /\ attempt' = attempt + 1
               /\ IF attempt + 1 < maxRetries
                  THEN /\ gitErr' = r.err
                       /\ UNCHANGED <<pc, ret>>
                  ELSE /\ gitErr' = ErrorGitRepositoryAccessFailed
                       /\ pc' = "done"
                       /\ ret' = ReturnOf(ErrorGitRepositoryAccessFailed)
    /\ UNCHANGED <<cmd, printed, deployVars, sessionVars, opts, urls, keyring, opened, githubUsername, rec,
                   pollClock, tickBuffered, pollLog, keyring0, resolution, firstProbe, addCalls, addOK>>

\* the rest of runClone and runLink: the rename, the .env file, the start
CloneFinish(ok) ==
    /\ cmd \in {"clone", "link"}
    /\ pc = "clone_finish"
    /\ pc' = "done"
    /\ ret' = IF ok THEN ReturnOf(NilError)
              ELSE ReturnOf(WrapError(<<"failed to generate .env file">>, NewError(<<"request failed">>)))
    /\ printed' = IF ok THEN Append(printed, [line |-> "Repository ready"]) ELSE printed
    /\ UNCHANGED <<cmd, deployVars, sessionVars, accessVars>>

InitAccess ==
    /\ cmd \in {"create", "clone", "link"}
    /\ pc = "start"
    /\ ret = NotReturned
    /\ printed = << >>
    /\ DeployIdle
    /\ opts \in [NonInteractive : BOOLEAN, GithubUsername : FlagUsernames]
    /\ (cmd # "create" => opts = [NonInteractive |-> FALSE, GithubUsername |-> ""])
    /\ urls \in { [ssh |-> SSHURL, https |-> HTTPSURL],
                  [ssh |-> << >>, https |-> HTTPSURL],
                  [ssh |-> SSHURL, https |-> << >>] }
    /\ keyring \in StoredUsernames
    /\ keyring0 = keyring
    /\ resolution = NoResolution
    /\ dir \in {"absent", "plain", "repo"}
    /\ (cmd = "create" => dir = "absent")
    /\ opened = << >>
    /\ githubUsername = ""
    /\ rec = NotReconciled
    /\ pollClock = 0
    /\ tickBuffered = FALSE
    /\ pollLog = NoProbes
    /\ gitErr = << >>
    /\ attempt = 0
    /\ slept = << >>
    /\ firstProbe = "none"
    /\ addCalls = 0
    /\ addOK = FALSE
    /\ gitOps = 0
    /\ gitOpsUnconfirmed = 0
    /\ SessionIdle

NextAccess ==
    \/ \E ok \in BOOLEAN : CreatePrelude(ok)
    \/ \E ok \in BOOLEAN : ClonePrelude(ok)
    \/ \E g \in GitInputs : GitFirstAttempt(g)
    \/ \E canSSH \in BOOLEAN, lsRemote \in BOOLEAN : ReconcilerProbe(canSSH, lsRemote)
    \/ \E readOK \in BOOLEAN, sshOutput \in SSHOutputs, config \in ConfigOutputs,
          email \in EmailOutputs, prompt \in PromptResults, storeOK \in BOOLEAN :
          ReconcilerResolve(readOK, sshOutput, config, email, prompt, storeOK)
    \/ \E err \in AddErrors : ReconcilerAdd(err)
    \/ \E canSSH \in BOOLEAN, lsRemote \in BOOLEAN, seconds \in ProbeSeconds :
          PollTick(canSSH, lsRemote, seconds)
    \/ PollTimeout
    \/ ReconcilerReturn
    \/ \E resourcesOK \in BOOLEAN, canSSH \in BOOLEAN, run \in GitRuns, addedOK \in BOOLEAN :
          CreateAfterAccess(resourcesOK, canSSH, run, addedOK)
    \/ CloneAfterAccess
    \/ \E g \in GitInputs : GitRetryAttempt(g)
    \/ \E ok \in BOOLEAN : CloneFinish(ok)

SpecAccess == InitAccess /\ [][NextAccess]_vars

-----------------------------------------------------------------------------
(* cmd/app/helper.go: isGitAuthError applied to chains of wrapped errors *)

\* how many times an error is wrapped
MaxWrapDepth == 3

\* messages that hold one of the eight patterns, in any case
AuthTexts ==
    { "Repository not found", "could not read from remote repository",
      "Authentication failed", "PERMISSION DENIED", "403", "401",
      "Access Denied", "fatal: Unable to access" }

\* messages that hold none
OtherTexts == { "exit status 128", "Not Found", "404", "already exists" }

\* the titles commands wrap errors with
WrapTitles == { "failed to clone repository", "Permission denied", "git failed" }

\* the errors made of a message wrapped up to depth times
RECURSIVE ErrorChains(_)
ErrorChains(depth) ==
    IF depth = 0
    THEN { NewError(<<t>>) : t \in AuthTexts \cup OtherTexts }
    ELSE LET inner == ErrorChains(depth - 1)
         IN  inner \cup { WrapError(<<w>>, e) : w \in WrapTitles, e \in inner }

\* the call isGitAuthError(err)
ClassifyError ==
    /\ cmd = "classify"
    /\ pc = "start"
    /\ ret' = [kind |-> "bool", value |-> isGitAuthError(gitErr)]
    /\ pc' = "done"
    /\ UNCHANGED <<cmd, printed, opts, urls, keyring, dir, opened, githubUsername, rec, pollClock,
                   tickBuffered, gitErr, attempt, slept, keyring0, resolution, firstProbe,
                   addCalls, addOK, pollLog, gitOps, gitOpsUnconfirmed, deployVars, sessionVars>>

InitClassify ==
    /\ cmd = "classify"
    /\ pc = "start"
    /\ ret = NotReturned
    /\ printed = << >>
    /\ DeployIdle
    /\ opts = [NonInteractive |-> FALSE, GithubUsername |-> ""]
    /\ urls = [ssh |-> << >>, https |-> << >>]
    /\ keyring = ""
    /\ dir = "absent"
    /\ opened = << >>
    /\ githubUsername = ""
    /\ rec = NotReconciled
    /\ pollClock = 0
    /\ tickBuffered = FALSE
    /\ pollLog = NoProbes
    /\ gitErr \in {NilError} \cup ErrorChains(MaxWrapDepth)
    /\ attempt = 0
    /\ slept = << >>
    /\ keyring0 = ""
    /\ resolution = NoResolution
    /\ firstProbe = "none"
    /\ addCalls = 0
    /\ addOK = FALSE
    /\ gitOps = 0
    /\ gitOpsUnconfirmed = 0
    /\ SessionIdle

SpecClassify == InitClassify /\ [][ClassifyError]_vars

-----------------------------------------------------------------------------
(* clients/git/client.go: ParseRemoteURL and ExtractGitHubURL applied to
   remote URLs, well formed or not *)

Owners == { "acme", "octo-org" }
Repos == { "my-app", "cli" }

\* hosts and schemes that are not the two of GitHub
OtherHosts == { "git@gitlab.com:", "https://gitlab.com/", "http://github.com/",
                "git@github.com.example.org:" }

\* the URLs handed to the parser: the four forms of a repository, the same
\* without the slash, with another host, with a further path segment, empty
RemoteURLs ==
    { <<h, o, "/", r>> : h \in {"git@github.com:", "https://github.com/"} \cup OtherHosts, o \in Owners, r \in Repos }
    \cup { <<h, o, "/", r, ".git">> : h \in {"git@github.com:", "https://github.com/"} \cup OtherHosts, o \in Owners, r \in Repos }
    \cup { <<h, o, r>> : h \in {"git@github.com:", "https://github.com/"}, o \in Owners, r \in Repos }
    \cup { <<h, o, r, ".git">> : h \in {"git@github.com:", "https://github.com/"}, o \in Owners, r \in Repos }
    \cup { <<h, o, "/", r, "/", "tree">> : h \in {"git@github.com:", "https://github.com/"}, o \in Owners, r \in {"my-app"} }
    \cup { <<h, o>> : h \in {"git@github.com:", "https://github.com/"}, o \in Owners }
    \cup { << >> }

\* the calls ParseRemoteURL and ExtractGitHubURL on each of two URLs
ParseRemotes ==
    /\ cmd = "parse"
    /\ pc = "start"
    /\ ret' = [kind |-> "parsed",
               first |-> ParseRemoteURL(urls.ssh),
               second |-> ParseRemoteURL(urls.https),
               firstURL |-> ExtractGitHubURL(urls.ssh),
               secondURL |-> ExtractGitHubURL(urls.https)]
    /\ pc' = "done"
    /\ UNCHANGED <<cmd, printed, opts, urls, keyring, dir, opened, githubUsername, rec, pollClock,
                   tickBuffered, gitErr, attempt, slept, keyring0, resolution, firstProbe,
                   addCalls, addOK, pollLog, gitOps, gitOpsUnconfirmed, deployVars, sessionVars>>

InitParse ==
    /\ cmd = "parse"
    /\ pc = "start"
    /\ ret = NotReturned
    /\ printed = << >>
    /\ DeployIdle
    /\ SessionIdle
    /\ opts = [NonInteractive |-> FALSE, GithubUsername |-> ""]
    /\ urls \in [ssh : RemoteURLs, https : RemoteURLs]
    /\ keyring = ""
    /\ dir = "absent"
    /\ opened = << >>
    /\ githubUsername = ""
    /\ rec = NotReconciled
    /\ pollClock = 0
    /\ tickBuffered = FALSE
    /\ pollLog = NoProbes
    /\ gitErr = << >>
    /\ attempt = 0
    /\ slept = << >>
    /\ keyring0 = ""
    /\ resolution = NoResolution
    /\ firstProbe = "none"
    /\ addCalls = 0
    /\ addOK = FALSE
    /\ gitOps = 0
    /\ gitOpsUnconfirmed = 0

SpecParse == InitParse /\ [][ParseRemotes]_vars

-----------------------------------------------------------------------------
(* clients/token/token.go: the credential store behind go-keyring *)

\* the access tokens the backend hands out
Tokens == { "token-1", "token-2" }

\* the organizations of the backend
Organizations == { [ID |-> "org-1", Name |-> "Acme"], [ID |-> "org-2", Name |-> "Globex"] }

\* keyring.ErrNotFound, and any other failure of the keyring
ErrNotFound == NewError(<<"secret not found in keyring">>)
ErrKeyring == NewError(<<"keyring unavailable">>)

\* keyring.Set: writes the entry unless the keyring fails
KeyringSet(s, key, value, ok) ==
    IF ok
    THEN [store |-> [s EXCEPT ![key] = value], err |-> NilError]
    ELSE [store |-> s, err |-> ErrKeyring]

\* keyring.Get: ErrNotFound for an entry that is not there
KeyringGet(s, key, ok) ==
    IF s[key] = "" THEN [value |-> "", err |-> ErrNotFound]
    ELSE IF ~ok THEN [value |-> "", err |-> ErrKeyring]
    ELSE [value |-> s[key], err |-> NilError]

\* keyring.Delete: ErrNotFound for an entry that is not there
KeyringDelete(s, key, ok) ==
    IF s[key] = "" THEN [store |-> s, err |-> ErrNotFound]
    ELSE IF ~ok THEN [store |-> s, err |-> ErrKeyring]
    ELSE [store |-> [s EXCEPT ![key] = ""], err |-> NilError]

Wrapped(r, msg) ==
    IF r.err = NilError THEN r ELSE [r EXCEPT !.err = WrapError(<<msg>>, r.err)]

StoreToken(s, token, ok) ==
    Wrapped(KeyringSet(s, "token", token, ok), "failed to store token in keyring")

GetToken(s, ok) ==
    Wrapped(KeyringGet(s, "token", ok), "failed to get token from keyring")

DeleteToken(s, ok) ==
    Wrapped(KeyringDelete(s, "token", ok), "failed to delete token from keyring")

\* StoreDefaultOrg: the ID, then the name; the first failure returns
StoreDefaultOrg(s, orgID, orgName, idOK, nameOK) ==
    LET id == KeyringSet(s, "orgID", orgID, idOK) IN
    IF id.err # NilError
    THEN Wrapped(id, "failed to store default org in keyring")
    ELSE Wrapped(KeyringSet(id.store, "orgName", orgName, nameOK),
                 "failed to store default org name in keyring")

\* DeleteDefaultOrg: the ID, then the name; the first failure returns
DeleteDefaultOrg(s, idOK, nameOK) ==
    LET id == KeyringDelete(s, "orgID", idOK) IN
    IF id.err # NilError
    THEN Wrapped(id, "failed to delete default org from keyring")
    ELSE Wrapped(KeyringDelete(id.store, "orgName", nameOK),
                 "failed to delete default org name from keyring")

-----------------------------------------------------------------------------
(* clients/api: the calls of the session commands *)

ErrorNotLoggedIn == CLIError("Not logged in!", "user not logged in")
ErrorUnauthorized == CLIError("Unauthorized", "unauthorized")
ErrorInvalidDeviceCode == CLIError("Invalid device code", "invalid device code")
ErrorAuthorizationPending == CLIError("Authorization pending", "authorization pending")
ErrorNoOrganizationsAvailable == CLIError("No organizations available", "no organizations available")
ErrorRequest == WrapError(<<"failed to make request">>, NewError(<<"connection refused">>))

\* errors.Is for the errors declared in errors.go
ErrorsIs(err, target) == \E i \in 1..Len(err) : err[i] = target[1]

\* doRequest: the token is read from the keyring, then the request is sent
doRequest(s, readOK, httpErr) ==
    IF GetToken(s, readOK).err # NilError THEN ErrorNotLoggedIn ELSE httpErr

\* what POST /login/poll answers
PollResponses ==
    { [AccessToken |-> "", err |-> ErrorAuthorizationPending],
      [AccessToken |-> "", err |-> ErrorInvalidDeviceCode],
      [AccessToken |-> "", err |-> ErrorRequest],
      [AccessToken |-> "", err |-> NilError] }
    \cup { [AccessToken |-> t, err |-> NilError] : t \in Tokens }

\* what GET /organizations answers
OrganizationsResponses ==
    { [Organizations |-> {}, err |-> ErrorUnauthorized] }
    \cup { [Organizations |-> o, err |-> NilError] : o \in SUBSET Organizations }

\* GetOrganizations
GetOrganizations(s, readOK, resp) ==
    LET err == doRequest(s, readOK, resp.err) IN
    IF err # NilError THEN [Organizations |-> {}, err |-> err] ELSE resp

\* Logout: POST /logout
ApiLogout(s, readOK, revokeOK) ==
    doRequest(s, readOK, IF revokeOK THEN NilError ELSE ErrorRequest)

-----------------------------------------------------------------------------
(* cmd/user/login.go: runLogin, pollForToken, SelectOrganization *)

\* Interval and ExpiresIn of the LoginStartResponse, in seconds
IntervalSeconds == 5
ExpiresInSeconds == 15

\* how long a PollLogin request takes, within the client's 30 seconds
PollLoginSeconds == { 0, 2 * IntervalSeconds }

\* time.After(expiresIn): the timeout channel holds its value
LoginTimeoutReady(t) == t >= ExpiresInSeconds

\* time.NewTicker(interval): the first tick after second t
LoginNextTickAt(t) == ((t \div IntervalSeconds) + 1) * IntervalSeconds

LoginTickFellIn(from, to) == \E k \in (from + 1)..to : k % IntervalSeconds = 0

\* the kind of a poll response
ResponseKind(resp) ==
    IF resp.err # NilError
    THEN IF ErrorsIs(resp.err, ErrorAuthorizationPending) THEN "pending" ELSE "error"
    ELSE IF resp.AccessToken # "" THEN "token" ELSE "empty"

\* SelectOrganization: none, the only one, or the one picked in the form
SelectOrganization(orgs, formOK, pick) ==
    IF orgs = {}
    THEN [org |-> [ID |-> "", Name |-> ""], err |-> ErrorNoOrganizationsAvailable]
    ELSE IF Cardinality(orgs) = 1
    THEN [org |-> CHOOSE o \in orgs : TRUE, err |-> NilError]
    ELSE IF ~formOK
    THEN [org |-> [ID |-> "", Name |-> ""],
          err |-> WrapError(<<"failed to get selection">>, NewError(<<"user aborted">>))]
    ELSE IF pick \in orgs
    THEN [org |-> pick, err |-> NilError]
    ELSE [org |-> [ID |-> "", Name |-> ""], err |-> NewError(<<"selected organization not found">>)]

\* the variables no session command touches
sessionFrame == <<deployVars, opts, urls, dir, githubUsername, rec, gitErr, attempt, slept,
                  resolution, firstProbe, addCalls, addOK, pollLog, gitOps, gitOpsUnconfirmed>>

SessionCommands == { "login", "logout", "select", "link" }

\* where a session command starts
StartOf(c) ==
    CASE c = "login" -> "login_start"
      [] c = "logout" -> "logout"
      [] c = "select" -> "select"
      [] c = "link" -> "link_org"

\* the user runs another command on the same machine
NextCommand(c) ==
    /\ cmd \in SessionCommands
    /\ pc = "done"
    /\ cmd' = c
    /\ pc' = StartOf(c)
    /\ ret' = NotReturned
    /\ printed' = << >>
    /\ opened' = << >>
    /\ store0' = store
    /\ keyring0' = keyring
    /\ pollResult' = NotPolled
    /\ carried' = NoResponses
    /\ logoutLog' = NoLogout
    /\ UNCHANGED <<store, keyring, pollClock, tickBuffered, sessionFrame>>

\* runLogin up to pollForToken: StartLogin, OpenBrowser, the two lines
LoginStart(startOK, browserOK) ==
    /\ cmd = "login"
    /\ pc = "login_start"
    /\ IF ~startOK
       THEN /\ pc' = "done"
            /\ ret' = ReturnOf(WrapError(<<"failed to start login">>, ErrorRequest))
            /\ UNCHANGED <<printed, opened>>
       ELSE /\ pc' = "login_poll"
            /\ opened' = IF browserOK THEN Append(opened, <<"https://app.major.build/device">>) ELSE opened
            /\ printed' = Append(printed, [line |-> "open the following URL", url |-> <<"https://app.major.build/device">>])
            /\ UNCHANGED ret
    /\ UNCHANGED <<cmd, store, store0, keyring, keyring0, pollResult, carried, logoutLog,
                   pollClock, tickBuffered, sessionFrame>>

\* pollForToken, case <-ticker.C: the select takes a tick, the one buffered
\* or, with nothing ready, the next one to fall, and PollLogin runs
LoginPollTick(resp, seconds) ==
    /\ cmd = "login"
    /\ pc = "login_poll"
    /\ \/ tickBuffered
       \/ ~LoginTimeoutReady(pollClock) /\ LoginNextTickAt(pollClock) <= ExpiresInSeconds
    /\ LET start == IF tickBuffered THEN pollClock ELSE LoginNextTickAt(pollClock)
           end == start + seconds
           kind == ResponseKind(resp)
       IN
       /\ start <= ExpiresInSeconds + MaxOverrunSeconds
       /\ carried' = [tokens |-> IF resp.err = NilError
                                 THEN carried.tokens \cup {resp.AccessToken}
                                 ELSE carried.tokens,
                      last |-> kind]
       /\ IF kind = "pending"
          THEN /\ pollClock' = end
               /\ tickBuffered' = LoginTickFellIn(start, end)
               /\ printed' = Append(printed, [line |-> "."])
               /\ UNCHANGED <<pc, pollResult>>
          ELSE /\ pollClock' = 0
               /\ tickBuffered' = FALSE
               /\ pc' = "login_polled"
               /\ pollResult' =
                    IF kind = "error"
                    THEN [token |-> "", err |-> WrapError(<<"failed to poll">>, resp.err)]
                    ELSE IF kind = "token"
                    THEN [token |-> resp.AccessToken, err |-> NilError]
                    ELSE [token |-> "",
                          err |-> NewError(<<"unexpected response - no access token received">>)]
               /\ UNCHANGED printed
    /\ UNCHANGED <<cmd, ret, opened, store, store0, keyring, keyring0, logoutLog, sessionFrame>>

\* pollForToken, case <-timeoutChan: the select takes the timeout, ready or,
\* with nothing ready, falling no later than the next tick
LoginPollTimeout ==
    /\ cmd = "login"
    /\ pc = "login_poll"
    /\ \/ LoginTimeoutReady(pollClock)
       \/ ~tickBuffered /\ LoginNextTickAt(pollClock) >= ExpiresInSeconds
    /\ carried' = [carried EXCEPT !.last = "expired"]
    /\ pollClock' = 0
    /\ tickBuffered' = FALSE
    /\ pc' = "login_polled"
    /\ pollResult' = [token |-> "", err |-> NewError(<<"authentication timeout - code expired">>)]
    /\ UNCHANGED <<cmd, ret, printed, opened, store, store0, keyring, keyring0, logoutLog, sessionFrame>>

\* runLogin after pollForToken: StoreToken, GetOrganizations,
\* SelectOrganization, StoreDefaultOrg, the success message
LoginFinish(storeOK, readOK, resp, formOK, pick, idOK, nameOK) ==
    /\ cmd = "login"
    /\ pc = "login_polled"
    /\ resp.Organizations # {} => pick \in resp.Organizations
    /\ pc' = "done"
    /\ LET stored == StoreToken(store, pollResult.token, storeOK)
           orgs == GetOrganizations(stored.store, readOK, resp)
           selected == SelectOrganization(orgs.Organizations, formOK, pick)
           org == StoreDefaultOrg(stored.store, selected.org.ID, selected.org.Name, idOK, nameOK)
       IN
       IF pollResult.err # NilError
       THEN /\ ret' = ReturnOf(WrapError(<<"authentication failed">>, pollResult.err))
            /\ UNCHANGED <<store, printed>>
       ELSE IF stored.err # NilError
       THEN /\ ret' = ReturnOf(WrapError(<<"failed to store token">>, stored.err))
            /\ store' = stored.store
            /\ UNCHANGED printed
       ELSE IF orgs.err # NilError
       THEN /\ ret' = ReturnOf(WrapError(<<"failed to fetch organizations">>, orgs.err))
            /\ store' = stored.store
            /\ UNCHANGED printed
       ELSE IF orgs.Organizations = {}
       THEN /\ ret' = ReturnOf(ErrorNoOrganizationsAvailable)
            /\ store' = stored.store
            /\ UNCHANGED printed
       ELSE IF selected.err # NilError
       THEN /\ ret' = ReturnOf(WrapError(<<"failed to select organization">>, selected.err))
            /\ store' = stored.store
            /\ UNCHANGED printed
       ELSE IF org.err # NilError
       THEN /\ ret' = ReturnOf(WrapError(<<"failed to store default organization">>, org.err))
            /\ store' = org.store
            /\ UNCHANGED printed
       ELSE /\ ret' = ReturnOf(NilError)
            /\ store' = org.store
            /\ printed' = printed \o <<[line |-> "Default organization set to: ",
                                        name |-> selected.org.Name],
                                       [line |-> "Login successful"]>>
    /\ UNCHANGED <<cmd, opened, store0, keyring, keyring0, pollResult, carried, logoutLog,
                   pollClock, tickBuffered, sessionFrame>>

-----------------------------------------------------------------------------
(* cmd/user/logout.go, cmd/org/select.go, cmd/bootstrap.go: the other commands
   that write the credential store *)

RevocationFailedNever(err) == FALSE

\* "if err != nil" after apiClient.Logout()
RevocationFailed(err) == err # NilError

\* runLogout: the revocation, DeleteToken, DeleteDefaultOrg
Logout(readOK, revokeOK, delTokenOK, delIdOK, delNameOK) ==
    /\ cmd = "logout"
    /\ pc = "logout"
    /\ pc' = "done"
    /\ LET revoke == ApiLogout(store, readOK, revokeOK)
           token == DeleteToken(store, delTokenOK)
           org == DeleteDefaultOrg(token.store, delIdOK, delNameOK)
           revoked == IF revoke = NilError THEN "ok" ELSE "failed"
       IN
       IF RevocationFailed(revoke)
       THEN /\ ret' = ReturnOf(WrapError(<<"failed to logout">>, revoke))
            /\ logoutLog' = [revoked |-> revoked, keyringFailed |-> FALSE]
            /\ UNCHANGED <<store, printed>>
       ELSE IF token.err # NilError
       THEN /\ ret' = ReturnOf(WrapError(<<"failed to delete local token">>, token.err))
            /\ store' = token.store
            /\ logoutLog' = [revoked |-> revoked, keyringFailed |-> ErrorsIs(token.err, ErrKeyring)]
            /\ UNCHANGED printed
       ELSE IF org.err # NilError
       THEN /\ ret' = ReturnOf(WrapError(<<"failed to delete default organization">>, org.err))
            /\ store' = org.store
            /\ logoutLog' = [revoked |-> revoked, keyringFailed |-> ErrorsIs(org.err, ErrKeyring)]
            /\ UNCHANGED printed
       ELSE /\ ret' = ReturnOf(NilError)
            /\ store' = org.store
            /\ logoutLog' = [revoked |-> revoked, keyringFailed |-> FALSE]
            /\ printed' = Append(printed, [line |-> "Successfully logged out!"])
    /\ UNCHANGED <<cmd, opened, store0, keyring, keyring0, pollResult, carried,
                   pollClock, tickBuffered, sessionFrame>>

\* fmt.Errorf("msg: %w", err)
Errorf(msg, err) == <<[msg |-> <<msg, ": ">> \o err[1].msg, type |-> "wrapError"]>> \o err

\* runSelect: GetOrganizations, SelectOrganization, StoreDefaultOrg
OrgSelect(readOK, resp, formOK, pick, idOK, nameOK) ==
    /\ cmd = "select"
    /\ pc = "select"
    /\ resp.Organizations # {} => pick \in resp.Organizations
    /\ pc' = "done"
    /\ LET orgs == GetOrganizations(store, readOK, resp)
           selected == SelectOrganization(orgs.Organizations, formOK, pick)
           org == StoreDefaultOrg(store, selected.org.ID, selected.org.Name, idOK, nameOK)
       IN
       IF orgs.err # NilError
       THEN /\ ret' = ReturnOf(orgs.err)
            /\ printed' = Append(printed, [line |-> "Error", err |-> orgs.err])
            /\ UNCHANGED store
       ELSE IF orgs.Organizations = {}
       THEN /\ ret' = ReturnOf(NilError)
            /\ printed' = Append(printed, [line |-> "No organizations available"])
            /\ UNCHANGED store
       ELSE IF selected.err # NilError
       THEN /\ ret' = ReturnOf(Errorf("failed to select organization", selected.err))
            /\ UNCHANGED <<store, printed>>
       ELSE IF org.err # NilError
       THEN /\ ret' = ReturnOf(Errorf("failed to store default organization", org.err))
            /\ store' = org.store
            /\ UNCHANGED printed
       ELSE /\ ret' = ReturnOf(NilError)
            /\ store' = org.store
            /\ printed' = Append(printed, [line |-> "Default organization set to: ",
                                           name |-> selected.org.Name])
    /\ UNCHANGED <<cmd, opened, store0, keyring, keyring0, pollResult, carried, logoutLog,
                   pollClock, tickBuffered, sessionFrame>>

\* user.RunLoginForLink: a login that succeeds leaves a token in the store
RunLoginForLink(s, loginOK, token) ==
    IF loginOK
    THEN [store |-> [s EXCEPT !.token = token], err |-> NilError]
    ELSE [store |-> s, err |-> WrapError(<<"authentication failed">>, ErrorRequest)]

\* runLink: GetToken and the login, GetApplicationForLink, StoreDefaultOrg;
\* then the clone and what follows it, which may store a GitHub username
LinkOrg(readOK, loginOK, token, appOK, org, idOK, nameOK, rest, username) ==
    /\ cmd = "link"
    /\ pc = "link_org"
    /\ pc' = "done"
    /\ LET login == IF GetToken(store, readOK).err # NilError
                    THEN RunLoginForLink(store, loginOK, token)
                    ELSE [store |-> store, err |-> NilError]
           app == doRequest(login.store, TRUE, IF appOK THEN NilError ELSE ErrorUnauthorized)
           stored == StoreDefaultOrg(login.store, org.ID, org.Name, idOK, nameOK)
       IN
       IF login.err # NilError
       THEN /\ ret' = ReturnOf(WrapError(<<"failed to login">>, login.err))
            /\ UNCHANGED <<store, keyring, printed>>
       ELSE IF app # NilError
       THEN /\ ret' = ReturnOf(WrapError(<<"failed to get application info">>, app))
            /\ store' = login.store
            /\ printed' = Append(printed, [line |-> "Fetching application info..."])
            /\ UNCHANGED keyring
       ELSE IF stored.err # NilError
       THEN /\ ret' = ReturnOf(WrapError(<<"failed to store default organization">>, stored.err))
            /\ store' = stored.store
            /\ printed' = printed \o <<[line |-> "Fetching application info..."],
                                       [line |-> "Found application: "]>>
            /\ UNCHANGED keyring
       ELSE /\ ret' = ReturnOf(rest)
            /\ store' = stored.store
            /\ keyring' = IF keyring = "" THEN username ELSE keyring
            /\ printed' = printed \o <<[line |-> "Fetching application info..."],
                                       [line |-> "Found application: "]>>
    /\ UNCHANGED <<cmd, opened, store0, keyring0, pollResult, carried, logoutLog,
                   pollClock, tickBuffered, sessionFrame>>

InitSession ==
    /\ cmd \in SessionCommands
    /\ pc = StartOf(cmd)
    /\ ret = NotReturned
    /\ printed = << >>
    /\ DeployIdle
    /\ AccessIdle
    /\ SessionIdle

NextSession ==
    \/ \E c \in SessionCommands : NextCommand(c)
    \/ \E startOK \in BOOLEAN, browserOK \in BOOLEAN : LoginStart(startOK, browserOK)
    \/ \E resp \in PollResponses, seconds \in PollLoginSeconds : LoginPollTick(resp, seconds)
    \/ LoginPollTimeout
    \/ \E storeOK \in BOOLEAN, readOK \in BOOLEAN, resp \in OrganizationsResponses,
          formOK \in BOOLEAN, pick \in Organizations, idOK \in BOOLEAN, nameOK \in BOOLEAN :
          LoginFinish(storeOK, readOK, resp, formOK, pick, idOK, nameOK)
    \/ \E readOK \in BOOLEAN, revokeOK \in BOOLEAN, delTokenOK \in BOOLEAN,
          delIdOK \in BOOLEAN, delNameOK \in BOOLEAN :
          Logout(readOK, revokeOK, delTokenOK, delIdOK, delNameOK)
    \/ \E readOK \in BOOLEAN, resp \in OrganizationsResponses, formOK \in BOOLEAN,
          pick \in Organizations, idOK \in BOOLEAN, nameOK \in BOOLEAN :
          OrgSelect(readOK, resp, formOK, pick, idOK, nameOK)
    \/ \E readOK \in BOOLEAN, loginOK \in BOOLEAN, token \in Tokens, appOK \in BOOLEAN,
          org \in Organizations, idOK \in BOOLEAN, nameOK \in BOOLEAN,
          rest \in {NilError, ErrorGitCloneFailed, ErrorGitRepositoryAccessFailed}, username \in StoredUsernames :
          LinkOrg(readOK, loginOK, token, appOK, org, idOK, nameOK, rest, username)

SpecSession == InitSession /\ [][NextSession]_vars

-----------------------------------------------------------------------------
(* The whole client: one invocation of any of the commands *)

Init == InitDeploy \/ InitAccess

Next == NextDeploy \/ NextAccess

Spec == Init /\ [][Next]_vars

-----------------------------------------------------------------------------
(* Claims about the deployment status poller, checked under SpecDeploy *)

FailedStatuses == { BUNDLE_FAILED, BUILD_FAILED, DEPLOY_FAILED }
TerminalStatuses == FailedStatuses \cup { DEPLOYED }

\* the last fetch gave a status in S, and no error
FetchedStatusIn(S) ==
    /\ lastFetched # NoResponse
    /\ lastFetched.err = NoErr
    /\ lastFetched.status \in S

\* the last fetch failed
FetchedError ==
    /\ lastFetched # NoResponse
    /\ lastFetched.err # NoErr

\* the deploy command has returned
DeployDone == cmd = "deploy" /\ pc = "done"

ReportsSuccess ==
    /\ DeployDone
    /\ \/ ret.kind = "nil"
       \/ \E i \in 1..Len(printed) : printed[i].line = "Deployment successful!"

ReportsFailedWith(status) ==
    /\ DeployDone
    /\ ret = [kind |-> "error", title |-> "deployment failed with status: ", status |-> status]

\* the poller has stopped: the program has quit and no fetch or timer is left
PollerStopped == pc \in {"quit", "done"} /\ poll = NoCmds /\ m.done

\* C1: the deploy command reports success only if the last status the poller
\* fetched was exactly DEPLOYED: not after any other status, a fetch error,
\* or a user interrupt.
C1_SuccessOnlyOnDeployed ==
    ReportsSuccess =>
        /\ FetchedStatusIn({DEPLOYED})
        /\ ~interrupted
        /\ runErr = NoErr

C1_Witness ==
    /\ ReportsSuccess
    /\ FetchedStatusIn({DEPLOYED})
    /\ fetches >= 2

\* C2: when the user presses ctrl+c while polling, no further status fetch is
\* issued and the deploy command does not report the deployment as failed: it
\* returns no "deployment failed" error.
C2_InterruptIsNotFailure ==
    /\ [](interrupted => ~(\E s \in StatusValues : ReportsFailedWith(s)))
    /\ [][interrupted => fetches' = fetches]_vars

\* C3, as stated: every status ending in _FAILED is a terminal failure: once
\* it is fetched the poller stops, never fetches again, and the deployment is
\* reported as failed.
C3_EveryFailedSuffixIsTerminal ==
    /\ [](FetchedStatusIn({s \in StatusValues : HasSuffixFailed(s)}) =>
            /\ PollerStopped
            /\ (pc = "done" => ret.kind = "error"))
    /\ [][FetchedStatusIn({s \in StatusValues : HasSuffixFailed(s)}) => fetches' = fetches]_vars

\* C3, amended: each of BUNDLE_FAILED, BUILD_FAILED and DEPLOY_FAILED is a
\* terminal failure: once it is fetched the poller stops, never fetches
\* again, and the deployment is reported as failed.
C3_KnownFailedIsTerminal ==
    /\ [](FetchedStatusIn(FailedStatuses) =>
            /\ PollerStopped
            /\ (pc = "done" => ret.kind = "error"))
    /\ [][FetchedStatusIn(FailedStatuses) => fetches' = fetches]_vars

C3_Witness ==
    /\ FetchedStatusIn({DEPLOY_FAILED})
    /\ DeployDone
    /\ fetches >= 2

C5_FailedStatusIsReported ==
    /\ [](FetchedStatusIn(FailedStatuses) /\ DeployDone =>
            /\ ReportsFailedWith(lastFetched.status)
            /\ ~ReportsSuccess
            /\ (lastFetched.deploymentError # "" =>
                   printed = <<[line |-> "Deployment failed with status: ",
                                status |-> lastFetched.status],
                               [line |-> "Deployment Error Details:",
                                text |-> lastFetched.deploymentError]>>))
    /\ [][FetchedStatusIn(FailedStatuses) =>
            fetches' = fetches /\ lastFetched' = lastFetched]_vars

C5_Witness ==
    /\ FetchedStatusIn({BUILD_FAILED})
    /\ lastFetched.deploymentError # ""
    /\ DeployDone

\* C6: once a status fetch fails the poller stops without a retry, and the
\* deploy command returns that error: no success and no deployment status is
\* reported.
C6_FetchErrorIsTerminal ==
    /\ [](FetchedError =>
            /\ PollerStopped
            /\ (pc = "done" =>
                   /\ ret = [kind |-> "error",
                             title |-> "failed to track deployment status",
                             cause |-> lastFetched.err]
                   /\ printed = << >>))
    /\ [][FetchedError => fetches' = fetches /\ lastFetched' = lastFetched]_vars

C6_Witness ==
    /\ FetchedError
    /\ DeployDone
    /\ fetches >= 2

-----------------------------------------------------------------------------
(* Claims about the repository access reconciler and its callers *)

InReconciler ==
    pc \in {"rec_probe", "rec_resolve", "rec_add", "rec_poll", "rec_granted", "rec_timed_out"}

Printed(line) == \E i \in 1..Len(printed) : printed[i].line = line

\* a probe of pollForRepositoryAccess has succeeded, or its timeout fired
PollHasRun == Printed("Repository access granted!") \/ rec = ErrorRepositoryAccessTimeout

\* C8: when the initial access probe succeeds the reconciler returns success
\* at once: AddGithubCollaborators is not called, no username is resolved or
\* stored, no invitation page is opened and the propagation poll never starts.
C8_AccessAlreadyGrantedReturnsAtOnce ==
    firstProbe = "ok" =>
        /\ rec = NilError
        /\ ~InReconciler
        /\ addCalls = 0
        /\ githubUsername = ""
        /\ keyring = keyring0
        /\ opened = << >>
        /\ pollClock = 0
    /\ tickBuffered = FALSE
    /\ pollLog = NoProbes
        /\ ~PollHasRun
        /\ ~Printed("Invitation sent!")

C8_Witness ==
    /\ firstProbe = "ok"
    /\ pc = AfterReconciler
    /\ keyring0 # ""

\* C9: one run of the reconciler goes probe, then request, then poll:
\* AddGithubCollaborators is called at most once and only after the initial
\* probe failed, and the propagation poll probes only after that call
\* returned without error.
C9_ProbeThenRequestThenPoll ==
    /\ addCalls <= 1
    /\ (addCalls >= 1 => firstProbe = "failed")
    /\ (pc \in {"rec_resolve", "rec_add"} => firstProbe = "failed" /\ addCalls = 0)
    /\ (pc \in {"rec_poll", "rec_granted", "rec_timed_out"} => addOK /\ addCalls = 1)
    /\ (pollClock > 0 \/ pollLog # NoProbes =>
            pc \in {"rec_poll", "rec_granted", "rec_timed_out"})
    /\ (PollHasRun => addOK /\ addCalls = 1 /\ firstProbe = "failed")

C9_Witness ==
    /\ Printed("Repository access granted!")
    /\ rec = NilError
    /\ addCalls = 1

\* C10 as stated: in app create, app clone and link no git clone or git pull
\* runs before the reconciler has returned success.
C10_NoGitBeforeAccessConfirmed == gitOpsUnconfirmed = 0

\* C10: in app create no git clone runs before the reconciler has returned
\* success; in app clone and link at most one git clone or git pull runs
\* before it, the first attempt, and once the reconciler has been entered no
\* further one runs until it has returned success.
C10_GitWaitsForAccessOnceDenied ==
    /\ [](cmd = "create" => gitOpsUnconfirmed = 0)
    /\ [](gitOpsUnconfirmed <= 1)
    /\ [](InReconciler => gitOps = gitOpsUnconfirmed)
    /\ [][gitOps' # gitOps => pc = "git_first" \/ rec = NilError]_vars

C10_Witness ==
    /\ cmd = "clone"
    /\ gitOpsUnconfirmed = 1
    /\ rec = NilError
    /\ gitOps >= 2
    /\ addCalls = 1

InPoll == pc \in {"rec_poll", "rec_granted", "rec_timed_out"}

\* C11: in interactive mode the reconciler returns the repository-access
\* timeout error only when pollForRepositoryAccess has run for the full 300
\* seconds: never earlier, never after a probe of the poll succeeded, and a
\* failed probe of the poll returns nothing, the poll goes on.
C11_TimeoutOnlyAfterFullWindow ==
    /\ [](InPoll => ~opts.NonInteractive /\ rec = NotReconciled)
    /\ [](pc = "rec_timed_out" => pollClock >= PollTimeoutSeconds)
    /\ [](pc = "rec_timed_out" /\ ~pollLog.slow => pollClock = PollTimeoutSeconds)
    /\ [](rec = ErrorRepositoryAccessTimeout => ~Printed("Repository access granted!"))
    /\ [][rec' = ErrorRepositoryAccessTimeout /\ rec # ErrorRepositoryAccessTimeout
             => pc = "rec_timed_out"]_vars
    /\ [][pc = "rec_granted" => rec' = NilError]_vars
    /\ [][pc = "rec_poll" /\ pc' = "rec_poll" => UNCHANGED <<rec, ret, printed>>]_vars

C11_Witness ==
    /\ rec = ErrorRepositoryAccessTimeout
    /\ pc = AfterReconciler
    /\ addCalls = 1

\* C12 as stated: once the 300 seconds have passed the poll starts no
\* further probe: the step it takes from there is the timeout's.
C12_NoProbeAfterTheWindow ==
    [][pc = "rec_poll" /\ pollClock > PollTimeoutSeconds => pc' = "rec_timed_out"]_vars

IsInvitationPending(err) == err # NilError /\ err[1].type = "InvitationPendingError"

\* C14: in non-interactive mode, after AddGithubCollaborators succeeded, the
\* reconciler runs no probe of the propagation poll and returns the
\* InvitationPendingError with the URL https://github.com/<owner>/<repo>;
\* app create then returns nil without a clone.
C14_NonInteractiveReturnsInvitationPending ==
    /\ (opts.NonInteractive => ~InPoll /\ pollLog = NoProbes /\ ~PollHasRun)
    /\ (opts.NonInteractive /\ addOK /\ ~InReconciler => IsInvitationPending(rec))
    /\ (IsInvitationPending(rec) =>
            /\ opts.NonInteractive
            /\ addOK
            /\ addCalls = 1
            /\ rec[1].URL = <<"https://github.com/", "acme", "/", "my-app">>
            /\ opened = <<rec[1].URL>>
            /\ cmd = "create"
            /\ gitOps = 0
            /\ dir = "absent"
            /\ (pc = "done" =>
                   /\ ret = [kind |-> "nil"]
                   /\ printed[Len(printed)] =
                         [line |-> "Action Required: Accept GitHub Invitation",
                          url |-> rec[1].URL]))

C14_Witness ==
    /\ IsInvitationPending(rec)
    /\ pc = "done"
    /\ ret = [kind |-> "nil"]

\* C15: when AddGithubCollaborators fails the reconciler returns at once the
\* error wrapped as "failed to add GitHub collaborator": no second call, no
\* probe of the propagation poll, no invitation page opened.
C15_AddFailureIsFatal ==
    addCalls >= 1 /\ ~addOK =>
        /\ addCalls = 1
        /\ ~InReconciler
        /\ rec[1] = [msg |-> <<"failed to add GitHub collaborator">>, type |-> "CLIError"]
        /\ rec[2].type = "wrapError"
        /\ SubSeq(rec[2].msg, 1, 2) = <<"failed to add GitHub collaborator", ": ">>
        /\ Len(rec) >= 3
        /\ pollLog = NoProbes
        /\ ~PollHasRun
        /\ opened = << >>
        /\ ~Printed("Invitation sent!")
        /\ (pc = "done" => ret.kind = "error")

C15_Witness ==
    /\ addCalls = 1
    /\ ~addOK
    /\ pc = "done"
    /\ rec[Len(rec)].msg = <<"failed to make request">>

\* the username block has run and access is about to be requested
AboutToRequest == pc = "rec_add"

\* C16 as stated: a resolved username that is not the one the credential
\* store held is in the credential store by the time access is requested.
C16_ResolvedUsernameIsStored ==
    AboutToRequest /\ githubUsername # keyring0 => keyring = githubUsername

\* C16: a username the reconciler detects or is given at the prompt is
\* written to the credential store before access is requested, the write's
\* error being ignored (the store then keeps what it held); a username given
\* by flag or read from the store is used without a write.
C16_DetectedOrPromptedUsernameIsStored ==
    AboutToRequest =>
        /\ githubUsername # ""
        /\ (opts.GithubUsername # "" =>
               /\ githubUsername = opts.GithubUsername
               /\ resolution.storeCalls = 0
               /\ keyring = keyring0)
        /\ (opts.GithubUsername = "" /\ githubUsername = resolution.stored =>
               /\ resolution.storeCalls = 0
               /\ keyring = keyring0)
        /\ (opts.GithubUsername = "" /\ githubUsername # resolution.stored =>
               /\ resolution.storeCalls = 1
               /\ (~resolution.storeFailed => keyring = githubUsername)
               /\ (resolution.storeFailed => keyring = keyring0))

C16_Witness ==
    /\ AboutToRequest
    /\ opts.GithubUsername = ""
    /\ keyring0 = ""
    /\ keyring = "monalisa"
    /\ githubUsername = "monalisa"

\* the names the three detection sources carry
ConfigName(config) ==
    IF config.ok /\ TrimSpace(config.output) # << >> THEN TrimSpace(config.output)[1] ELSE ""

EmailNameOf(email) == IF email.ok THEN EmailName(TrimSpace(email.output)) ELSE ""

CouldNotDetect ==
    NewError(<<"could not detect GitHub username. Run 'major user login' to set up GitHub access">>)

\* C17: in non-interactive mode with no username given by flag, none in the
\* credential store and none carried by the SSH greeting, github.user or the
\* no-reply address, the reconciler returns the "could not detect GitHub
\* username" error at once: no prompt, no AddGithubCollaborators call.
C17_NonInteractiveFailsFastWithoutUsername ==
    /\ (opts.NonInteractive /\ resolution.ran => ~resolution.prompted)
    /\ (/\ opts.NonInteractive
        /\ resolution.ran
        /\ opts.GithubUsername = ""
        /\ resolution.stored = ""
        /\ resolution.ssh = ""
        /\ ConfigName(resolution.config) = ""
        /\ EmailNameOf(resolution.email) = ""
        => /\ rec = CouldNotDetect
           /\ ~InReconciler
           /\ addCalls = 0
           /\ githubUsername = ""
           /\ keyring = keyring0
           /\ opened = << >>
           /\ gitOps = 0
           /\ (pc = "done" =>
                  ret = ReturnOf(WrapError(<<"failed to ensure repository access">>, rec))))

C17_Witness ==
    /\ opts.NonInteractive
    /\ rec = CouldNotDetect
    /\ pc = "done"

\* the first name in the order flag, credential store, SSH greeting,
\* github.user, no-reply address, prompt
FirstAvailableUsername ==
    IF opts.GithubUsername # "" THEN opts.GithubUsername
    ELSE IF resolution.stored # "" THEN resolution.stored
    ELSE IF resolution.ssh # "" THEN resolution.ssh
    ELSE IF ConfigName(resolution.config) # "" THEN ConfigName(resolution.config)
    ELSE IF EmailNameOf(resolution.email) # "" THEN EmailNameOf(resolution.email)
    ELSE resolution.prompt.value

\* C18 as stated: the username sent to AddGithubCollaborators is the first
\* available one in the order flag, credential store, SSH greeting,
\* github.user, no-reply address, prompt.
C18_UsernameFollowsPriorityOrder ==
    AboutToRequest => githubUsername = FirstAvailableUsername

\* the retry wrapper has returned an error to runClone or runLink
WrapperFailed == ret = ReturnOf(ErrorGitRepositoryAccessFailed)

C20_RetryOnlyAccessErrors ==
    /\ [][pc = "git_retry" /\ pc' = "clone_finish" =>
             gitErr' = NilError /\ attempt' = attempt]_vars
    /\ [][pc = "git_retry" /\ pc' = "done" /\ attempt' < maxRetries =>
             /\ attempt' = attempt
             /\ gitErr' # NilError
             /\ ~isGitAuthError(gitErr')
             /\ \E g \in GitInputs :
                   gitErr' = ensureGitRepository(dir, urls.ssh, urls.https, g).err]_vars
    /\ [][pc = "git_retry" /\ pc' = "git_retry" =>
             attempt' = attempt + 1 /\ isGitAuthError(gitErr')]_vars
    /\ [][pc = "git_retry" /\ gitErr' = ErrorGitRepositoryAccessFailed =>
             /\ attempt = maxRetries - 1
             /\ attempt' = maxRetries
             /\ (attempt > 0 => isGitAuthError(gitErr))
             /\ pc' = "done"]_vars
    /\ [](WrapperFailed /\ attempt < maxRetries => Len(slept) = attempt)
    /\ [](pc = "clone_finish" => gitErr = NilError)

C20_Witness ==
    /\ WrapperFailed
    /\ attempt = 1
    /\ slept = <<200>>
    /\ gitErr # NilError
    /\ ~isGitAuthError(gitErr)


\* the messages of the inputs that hold one of the eight patterns when the
\* case of the letters is left aside
HoldsAPattern ==
    { "Repository not found", "repository not found",
      "could not read from remote repository", "Could not read from remote repository",
      "Authentication failed", "PERMISSION DENIED", "Permission denied", "403", "401",
      "Access Denied", "fatal: Unable to access" }

SomeMessageHoldsAPattern(err) ==
    \E i \in 1..Len(err) : \E j \in 1..Len(err[i].msg) : err[i].msg[j] \in HoldsAPattern

Classified == cmd = "classify" /\ pc = "done"

\* C21: an error is an access error exactly when some error of its unwrap
\* chain, at whatever depth, has a message that holds one of the eight
\* patterns without regard to case; the nil error never is one
C21_AccessErrorIffSomeMessageMatches ==
    Classified =>
        /\ ret.value = SomeMessageHoldsAPattern(gitErr)
        /\ gitErr = NilError => ~ret.value

\* an access error found three levels down, under an outermost error that holds no pattern
C21_Witness ==
    /\ Classified
    /\ ret.value
    /\ Len(gitErr) >= 4
    /\ \A i \in 1..(Len(gitErr) - 1) : gitErr[i].type # "error"
    /\ ~SomeMessageHoldsAPattern(<<gitErr[1]>>)


AccessDone == cmd \in {"create", "clone", "link"} /\ pc = "done"

ReturnsError == ret.kind = "error"

\* the reconciler has read or written the Credential Store and failed at it
StoreAccessFailed == resolution.ran /\ (resolution.readFailed \/ resolution.storeFailed)

\* a failing git operation or backend call ends the command with an error,
\* after at most maxRetries attempts
GitAndBackendFailuresSurface ==
    /\ AccessDone /\ gitErr # NilError => ReturnsError
    /\ AccessDone /\ addCalls > 0 /\ ~addOK => ReturnsError
    /\ AccessDone /\ rec \notin {NotReconciled, NilError} /\ ~IsInvitationPending(rec)
           => ReturnsError
    /\ attempt <= maxRetries
    /\ Len(slept) < maxRetries

LoginDone == cmd = "login" /\ pc = "done"

LogoutDone == cmd = "logout" /\ pc = "done"

\* C23 (as stated): a login that ends in an error leaves no token in the
\* Credential Store that was not there before; only a login that completes
\* leaves one
C23_FailedLoginStoresNoToken ==
    LoginDone /\ ReturnsError => store.token = store0.token

\* C24 (as stated): after a logout that succeeded the Credential Store holds
\* no token, no default organization ID or name, and no GitHub username
C24_LogoutLeavesNothing ==
    LogoutDone /\ ret.kind = "nil" => store = EmptyStore /\ keyring = ""


\* the four forms of the remote URL of a repository
FourForms(owner, repo) ==
    { <<"git@github.com:", owner, "/", repo>>,
      <<"git@github.com:", owner, "/", repo, ".git">>,
      <<"https://github.com/", owner, "/", repo>>,
      <<"https://github.com/", owner, "/", repo, ".git">> }

\* a URL with no "/" between the owner and the repository
MissingSlash(url) == \A i \in 2..Len(url) : url[i] # "/"

\* a URL that does not start with one of the two GitHub prefixes
DifferentHost(url) == url # << >> /\ url[1] \notin {"git@github.com:", "https://github.com/"}

Parsed == cmd = "parse" /\ pc = "done"

\* C25: the four forms of a repository's URL parse to the same owner and
\* repository, those of the URL, and give the same invitation URL
\* https://github.com/<owner>/<repo>; a URL with the slash missing or with
\* another host does not parse, and gives no invitation URL
C25_FourFormsParseAlike ==
    Parsed =>
        /\ \A o \in Owners, r \in Repos :
              urls.ssh \in FourForms(o, r) /\ urls.https \in FourForms(o, r)
              => /\ ret.first = [ok |-> TRUE, Owner |-> o, Repo |-> r]
                 /\ ret.second = ret.first
                 /\ ret.firstURL = <<"https://github.com/", o, "/", r>>
                 /\ ret.secondURL = ret.firstURL
        /\ MissingSlash(urls.ssh) \/ DifferentHost(urls.ssh)
              => ~ret.first.ok /\ ret.firstURL = << >>
        /\ MissingSlash(urls.https) \/ DifferentHost(urls.https)
              => ~ret.second.ok /\ ret.secondURL = << >>

\* the SSH form without ".git" and the HTTPS form with it, parsed alike
C25_Witness ==
    /\ Parsed
    /\ urls.ssh = <<"git@github.com:", "octo-org", "/", "cli">>
    /\ urls.https = <<"https://github.com/", "octo-org", "/", "cli", ".git">>
    /\ ret.first.ok
    /\ ret.second = ret.first


LoginTimeoutError == NewError(<<"authentication timeout - code expired">>)

\* pollForToken returns in this step
PollReturns == pc = "login_poll" /\ pc' = "login_polled"

\* a token the poll returns was carried by one of its responses
ReturnedTokenWasCarried ==
    pc = "login_polled" /\ pollResult.token # "" => pollResult.token \in carried.tokens

\* a pending response keeps the poll going, a token or another poll error ends it
PollFollowsResponses ==
    /\ [][pc = "login_poll" /\ carried' # carried /\ carried'.last = "pending"
             => pc' = "login_poll"]_vars
    /\ [][PollReturns /\ carried'.last = "token"
             => pollResult'.err = NilError /\ pollResult'.token \in carried'.tokens \ {""}]_vars
    /\ [][PollReturns /\ carried'.last = "error"
             => pollResult'.token = "" /\ pollResult'.err # NilError]_vars
    /\ [][PollReturns /\ carried'.last = "expired"
             => pollResult' = [token |-> "", err |-> LoginTimeoutError]]_vars

\* C27 (as stated): the poll goes on through authorization-pending responses
\* and ends at the first of three events only: a response with a non-empty
\* token, which it returns; another poll error, which fails the login; the
\* expiry of the device code, which is the timeout error and after which no
\* poll is sent. It returns no token that no response carried.
C27_PollStopsAtTokenErrorOrExpiry ==
    /\ []ReturnedTokenWasCarried
    /\ PollFollowsResponses
    /\ [][PollReturns => carried'.last \in {"token", "error", "expired"}]_vars
    /\ [][pc = "login_poll" /\ pollClock >= ExpiresInSeconds
             => PollReturns /\ pollResult'.err = LoginTimeoutError]_vars

\* what the poll does with each response
PollHandlesEachResponse ==
    /\ []ReturnedTokenWasCarried
    /\ PollFollowsResponses

\* C28 (as stated): with the revocation succeeding, a token in the store and
\* a keyring that works, logout succeeds whether or not a default
\* organization is stored
C28_LogoutSucceedsWithoutDefaultOrg ==
    /\ LogoutDone
    /\ logoutLog.revoked = "ok"
    /\ store0.token # ""
    /\ ~logoutLog.keyringFailed
    => ret.kind = "nil"

\* the same with a default organization in the store
LogoutSucceedsWithDefaultOrg ==
    /\ LogoutDone
    /\ logoutLog.revoked = "ok"
    /\ store0.token # ""
    /\ store0.orgID # "" /\ store0.orgName # ""
    /\ ~logoutLog.keyringFailed
    => ret.kind = "nil"

\* C29: a logout whose revocation fails removes nothing from the Credential
\* Store, and returns the error
C29_FailedRevocationRemovesNothing ==
    LogoutDone /\ logoutLog.revoked = "failed"
    => store = store0 /\ keyring = keyring0 /\ ReturnsError

\* a revocation that failed with the token, the organization and the GitHub
\* username in the store
C29_Witness ==
    /\ LogoutDone
    /\ logoutLog.revoked = "failed"
    /\ store0.token # ""
    /\ store0.orgID # ""
    /\ store0.orgName # ""
    /\ keyring0 # ""

OrgAgreedAtStart ==
    \/ store0.orgID = "" /\ store0.orgName = ""
    \/ \E o \in Organizations : store0.orgID = o.ID /\ store0.orgName = o.Name

\* C30 (as stated): whatever the commands run and whatever keyring write or
\* delete failed, the default organization ID and name are both stored or
\* both absent, and those of one organization
C30_OrgIdAndNameAgree ==
    \/ store.orgID = "" /\ store.orgName = ""
    \/ \E o \in Organizations : store.orgID = o.ID /\ store.orgName = o.Name

\* the same as long as no keyring operation on the organization has failed:
\* every command that ended without an error leaves the two in agreement
OrgAgreesAfterSuccess ==
    cmd \in SessionCommands /\ pc = "done" /\ ret.kind = "nil" /\ OrgAgreedAtStart
    => C30_OrgIdAndNameAgree

=============================================================================
